---- MODULE Spec2Model ----
(***************************************************************************)
(* Probe-and-hysteresis engine (monitor.py, NetworkMonitor.check_device)   *)
(* and alert dispatcher (alerter.py, Alerter) of SenaNetworkMonitor,       *)
(* together with the parts of the store (database.py) they read and write. *)
(*                                                                         *)
(* Time is counted in ticks of SecondsPerTick seconds; every duration of   *)
(* the source keeps its value in seconds and is compared in seconds.       *)
(* One handler (a check of one device, a settings save, a maintenance      *)
(* window change) is one action; handlers run one after the other, and     *)
(* every clock reading of one handler falls into the same tick.            *)
(***************************************************************************)
EXTENDS Integers, Sequences, FiniteSets, TLC

(* ------------------------------ bounds --------------------------------- *)
SecondsPerTick == 150
MaxTime == 5
MaxCheckTime == 2
MaxFailureCount == 4
MaxHistory == 3
MaxCheckHistory == 2
MaxWindows == 1
MaxSaves == 1
MaxProbeHistory == 1
MaxRecipients == 3

(* ------------------------- program constants --------------------------- *)
FAILURE_THRESHOLD == 3
SSL_EXPIRY_ALERT_DAYS == 7
AlertLockSeconds == 30
CacheSeconds == 30
DefaultCooldown == 300
RetentionSeconds == 600

Devices == {1}
Statuses == {"unknown", "up", "slow", "down"}
RawStatuses == {"up", "slow", "down"}
EventTypes == {"down", "recovery", "ssl_expiry"}
Channels == <<"email", "line", "telegram">>
ChannelSet == {"email", "line", "telegram"}
NoTime == -1
NoDevice == 0
NoDays == -1000
Unset == "<unset>"

VARIABLES now, devices, maintenance_windows, alert_settings,
          settings_cache, cache_time, recent_alerts, alert_history,
          last, streak, passed, saves, call

vars == <<now, devices, maintenance_windows, alert_settings,
          settings_cache, cache_time, recent_alerts, alert_history,
          last, streak, passed, saves, call>>

(* --------------------------- settings ---------------------------------- *)
SettingKeys == {"email_enabled", "line_enabled", "telegram_enabled",
                "alert_on_down", "alert_on_recovery", "alert_on_ssl_expiry",
                "alert_cooldown", "smtp_port"}

NoSettings == [k \in SettingKeys |-> Unset]

\* dict.get(key, default)
DictGet(settings, key, default) ==
    IF settings[key] = Unset THEN default ELSE settings[key]

\* str.lower() on the values the settings can hold
Lower(s) ==
    CASE s = "TRUE" -> "true"
      [] s = "True" -> "true"
      [] s = "False" -> "false"
      [] OTHER -> s

\* int(s): the strings of the model that Python's int() accepts
IntParsable(s) == s \in {"0", "60", "300", "587", "465"}

ParseInt(s) ==
    CASE s = "0" -> 0
      [] s = "60" -> 60
      [] s = "300" -> 300
      [] s = "587" -> 587
      [] s = "465" -> 465
      [] OTHER -> 0

\* timedelta comparison helpers: elapsed seconds between two tick stamps
Elapsed(later, earlier) == (later - earlier) * SecondsPerTick

(* ------------------------- store: database.py -------------------------- *)
\* only the windows of the device itself, without the rows for all devices
get_active_maintenance_device_only(windows, device_id, t) ==
    {w \in windows : /\ w.device_id = device_id
                     /\ w.start_time <= t
                     /\ w.end_time >= t}

\* Database.get_active_maintenance: rows with (device_id = ? OR device_id IS
\* NULL) AND start_time <= now AND end_time >= now; a falsy device_id selects
\* every row whose time range contains now
get_active_maintenance(windows, device_id, t) ==
    IF device_id # NoDevice
    THEN {w \in windows : /\ (w.device_id = device_id \/ w.device_id = NoDevice)
                          /\ w.start_time <= t
                          /\ w.end_time >= t}
    ELSE {w \in windows : w.start_time <= t /\ w.end_time >= t}

\* Database.is_device_in_maintenance
is_device_in_maintenance(windows, device_id, t) ==
    Cardinality(get_active_maintenance(windows, device_id, t)) > 0

RECURSIVE LastSentFrom(_, _, _, _)
\* the newest created_at among the rows of one key with status 'sent',
\* scanning rows i..Len(history)
LastSentFrom(history, device_id, event_type, i) ==
    IF i > Len(history) THEN NoTime
    ELSE LET rest == LastSentFrom(history, device_id, event_type, i + 1)
             r == history[i]
         IN IF /\ r.device_id = device_id
               /\ r.event_type = event_type
               /\ r.status = "sent"
               /\ r.created_at > rest
            THEN r.created_at
            ELSE rest

\* the newest row of the key whatever its status
get_last_alert_time_any_status(history, device_id, event_type) ==
    LET times == {history[i].created_at :
                     i \in {j \in 1..Len(history) :
                               /\ history[j].device_id = device_id
                               /\ history[j].event_type = event_type}}
    IN IF times = {} THEN NoTime
       ELSE CHOOSE t \in times : \A u \in times : u <= t

\* Database.get_last_alert_time: SELECT created_at ... WHERE device_id = ? AND
\* event_type = ? AND status = 'sent' ORDER BY created_at DESC LIMIT 1
get_last_alert_time(history, device_id, event_type) ==
    LastSentFrom(history, device_id, event_type, 1)

\* only delivered alerts are recorded
log_alert_sent_only(history, device_id, event_type, channel, status, t) ==
    IF status = "sent"
    THEN Append(history, [device_id |-> device_id, event_type |-> event_type,
                          channel |-> channel, status |-> status, created_at |-> t])
    ELSE history

\* Database.log_alert: one more row of alert_history
log_alert(history, device_id, event_type, channel, status, t) ==
    Append(history, [device_id |-> device_id, event_type |-> event_type,
                     channel |-> channel, status |-> status, created_at |-> t])

\* Database.get_failure_count: NULL and a missing row read as 0
get_failure_count(devs, device_id) == devs[device_id].failure_count

\* the counter bumped twice per failed check
increment_failure_count_twice(devs, device_id) ==
    [devs EXCEPT ![device_id].failure_count = @ + 2]

\* the counter stops at the threshold
increment_failure_count_capped(devs, device_id) ==
    [devs EXCEPT ![device_id].failure_count =
        IF @ < FAILURE_THRESHOLD THEN @ + 1 ELSE @]

\* Database.increment_failure_count: the table after the UPDATE
increment_failure_count(devs, device_id) ==
    [devs EXCEPT ![device_id].failure_count = @ + 1]

\* the counter left as it is on a successful check
reset_failure_count_skipped(devs, device_id) == devs

\* Database.reset_failure_count
reset_failure_count(devs, device_id) ==
    [devs EXCEPT ![device_id].failure_count = 0]

\* Database.update_device_status (the status column)
update_device_status(devs, device_id, status) ==
    [devs EXCEPT ![device_id].status = status]

(* ------------------------- Alerter: alerter.py ------------------------- *)
\* The alerter's own state and the clock travel through the operators below as
\* a record a = [now, cache, cache_time, recent, history].
AlertKeys == Devices \X EventTypes

\* Alerter._get_settings: the cached snapshot while it is younger than the
\* TTL, otherwise a fresh read of the store that replaces the snapshot
_get_settings(a, store) ==
    IF a.cache_time # NoTime /\ Elapsed(a.now, a.cache_time) < CacheSeconds
    THEN a
    ELSE [a EXCEPT !.cache = store, !.cache_time = a.now]

\* Alerter._get_setting: the value read (after _get_settings)
_get_setting(a, store, key, default) ==
    DictGet(_get_settings(a, store).cache, key, default)

\* Alerter.is_enabled
is_enabled(a, store, channel) ==
    LET key == CASE channel = "email" -> "email_enabled"
                 [] channel = "line" -> "line_enabled"
                 [] OTHER -> "telegram_enabled"
    IN Lower(_get_setting(a, store, key, "false")) = "true"

\* the cooldown compared with > instead of >=
should_alert_strict(a, store, windows, device_id, event_type) ==
    LET alert_key == <<device_id, event_type>>
    IN IF is_device_in_maintenance(windows, device_id, a.now)
       THEN [a |-> a, why |-> "maintenance"]
       ELSE IF /\ a.recent[alert_key] # NoTime
               /\ Elapsed(a.now, a.recent[alert_key]) < AlertLockSeconds
       THEN [a |-> a, why |-> "lock"]
       ELSE LET a1 == _get_settings(a, store)
                cooldown == ParseInt(DictGet(a1.cache, "alert_cooldown", "300"))
                last_alert == get_last_alert_time(a1.history, device_id, event_type)
            IN IF last_alert = NoTime
               THEN [a |-> a1, why |-> "pass"]
               ELSE IF Elapsed(a1.now, last_alert) > cooldown
                    THEN [a |-> a1, why |-> "pass"]
                    ELSE [a |-> a1, why |-> "cooldown"]

\* Alerter.should_alert: [a |-> alerter state after, why |-> the layer that
\* suppressed, or "pass"]
should_alert(a, store, windows, device_id, event_type) ==
    LET alert_key == <<device_id, event_type>>
    IN IF is_device_in_maintenance(windows, device_id, a.now)
       THEN [a |-> a, why |-> "maintenance"]
       ELSE IF /\ a.recent[alert_key] # NoTime
               /\ Elapsed(a.now, a.recent[alert_key]) < AlertLockSeconds
       THEN [a |-> a, why |-> "lock"]
       ELSE LET a1 == _get_settings(a, store)
                cooldown == ParseInt(DictGet(a1.cache, "alert_cooldown", "300"))
                last_alert == get_last_alert_time(a1.history, device_id, event_type)
            IN IF last_alert = NoTime
               THEN [a |-> a1, why |-> "pass"]
               ELSE IF Elapsed(a1.now, last_alert) >= cooldown
                    THEN [a |-> a1, why |-> "pass"]
                    ELSE [a |-> a1, why |-> "cooldown"]

\* the old entries dropped but the key itself never written
_mark_alert_sent_prune_only(a, device_id, event_type) ==
    [a EXCEPT !.recent =
        [k \in AlertKeys |->
            IF a.recent[k] # NoTime /\ Elapsed(a.now, a.recent[k]) < RetentionSeconds
            THEN a.recent[k] ELSE NoTime]]

\* Alerter._mark_alert_sent: write the key, then keep the entries newer than
\* the cutoff
_mark_alert_sent(a, device_id, event_type) ==
    LET alert_key == <<device_id, event_type>>
        marked == [a.recent EXCEPT ![alert_key] = a.now]
    IN [a EXCEPT !.recent =
           [k \in AlertKeys |->
               IF marked[k] # NoTime /\ Elapsed(a.now, marked[k]) < RetentionSeconds
               THEN marked[k] ELSE NoTime]]

\* the result of one sender call: "sent", "failed", or "raised" when the call
\* does not return. send_email converts smtp_port before its try block.
send_result(a, store, channel, outcome) ==
    IF channel = "email"
    THEN LET port == _get_setting(a, store, "smtp_port", "587")
         IN IF ~IntParsable(port) THEN "raised" ELSE outcome[channel]
    ELSE outcome[channel]

(* ----------------------- Alerter.send_telegram ------------------------- *)
\* the comma-separated pieces of the telegram_chat_id setting, as typed
ChatIdTokens == {"", "111", " 222"}

\* str.strip on a piece
Strip(token) ==
    CASE token = " 222" -> "222"
      [] OTHER -> token

ChatIds == {Strip(t) : t \in ChatIdTokens} \ {""}

\* what the Bot API call for one recipient meets: HTTP 200 with ok, HTTP 401,
\* another error reply, a timeout, or any other exception (a connection
\* error, a body that is not JSON)
Replies == {"ok", "401", "bad", "timeout", "error"}

\* chat_ids: the stripped, non-empty pieces in their order
chat_ids_of(tokens) ==
    SelectSeq([i \in 1..Len(tokens) |-> Strip(tokens[i])], LAMBDA id : id # "")

\* the entry appended to errors for a reply that is not a success; every
\* entry carries the chat id
telegram_error(chat_id, reply) ==
    [chat_id |-> chat_id,
     text |-> CASE reply = "401" -> "Invalid Token for"
                [] reply = "timeout" -> "Timeout for"
                [] OTHER -> "Error for"]

RECURSIVE telegram_loop_stop_at_failure(_, _, _, _)
\* the loop left at the first recipient that fails
telegram_loop_stop_at_failure(chat_ids, replies, i, acc) ==
    IF i > Len(chat_ids) THEN acc
    ELSE IF replies[chat_ids[i]] = "ok"
         THEN telegram_loop_stop_at_failure(chat_ids, replies, i + 1,
                  [acc EXCEPT !.attempted = Append(@, chat_ids[i]),
                              !.success_count = @ + 1])
         ELSE [acc EXCEPT !.attempted = Append(@, chat_ids[i]),
                          !.errors = Append(@, telegram_error(chat_ids[i],
                                                             replies[chat_ids[i]]))]

RECURSIVE telegram_loop(_, _, _, _)
\* the for loop over chat_ids from the i-th recipient on: one POST per
\* recipient inside its own try; acc = [attempted, success_count, errors]
telegram_loop(chat_ids, replies, i, acc) ==
    IF i > Len(chat_ids) THEN acc
    ELSE telegram_loop(chat_ids, replies, i + 1,
             IF replies[chat_ids[i]] = "ok"
             THEN [acc EXCEPT !.attempted = Append(@, chat_ids[i]),
                              !.success_count = @ + 1]
             ELSE [acc EXCEPT !.attempted = Append(@, chat_ids[i]),
                              !.errors = Append(@, telegram_error(chat_ids[i],
                                                                 replies[chat_ids[i]]))])

NoTelegramResult == [success |-> FALSE, warning |-> <<>>, error |-> "",
                     attempted |-> <<>>]

\* Alerter.send_telegram: has_token is whether telegram_bot_token is set,
\* tokens the pieces of telegram_chat_id, replies what each recipient's POST
\* meets. The result dict, with the recipients posted to (attempted) and the
\* errors entries the warning text joins
send_telegram(has_token, tokens, replies) ==
    IF ~has_token \/ (Len(tokens) = 1 /\ Strip(tokens[1]) = "")
    THEN [NoTelegramResult EXCEPT !.error = "Telegram settings incomplete"]
    ELSE IF chat_ids_of(tokens) = <<>>
    THEN [NoTelegramResult EXCEPT !.error = "No valid Telegram Chat IDs found"]
    ELSE LET acc == telegram_loop(chat_ids_of(tokens), replies, 1,
                                  [attempted |-> <<>>, success_count |-> 0,
                                   errors |-> <<>>])
         IN IF acc.success_count > 0
            THEN [success |-> TRUE, warning |-> acc.errors, error |-> "",
                  attempted |-> acc.attempted]
            ELSE [success |-> FALSE, warning |-> <<>>,
                  error |-> "All attempts failed", attempted |-> acc.attempted]

\* what one trigger_alert call did: the layer that ended it (why), the
\* channels whose sender was called (invoked), the status column of the rows it
\* wrote (logged), its local sent_any, and whether it raised
NoLog == [event |-> "none", why |-> "none", invoked |-> <<>>,
          logged |-> <<>>, sent_any |-> FALSE, raised |-> FALSE]

RECURSIVE fan_out(_, _, _, _, _, _)
\* Alerter.trigger_alert, the three channel blocks in source order, from
\* channel i on. acc = [a, invoked, logged, sent_any, raised].
fan_out(acc, store, device_id, event_type, outcome, i) ==
    IF i > Len(Channels) \/ acc.raised THEN acc
    ELSE LET channel == Channels[i]
             a1 == _get_settings(acc.a, store)
         IN IF ~is_enabled(acc.a, store, channel)
            THEN fan_out([acc EXCEPT !.a = a1], store, device_id, event_type,
                         outcome, i + 1)
            ELSE LET res == send_result(a1, store, channel, outcome)
                 IN IF res = "raised"
                    THEN [acc EXCEPT !.a = a1,
                                     !.invoked = Append(@, channel),
                                     !.raised = TRUE]
                    ELSE LET a3 == [a1 EXCEPT !.history =
                                       log_alert(@, device_id, event_type,
                                                 channel, res, a1.now)]
                         IN fan_out([a |-> a3,
                                     invoked |-> Append(acc.invoked, channel),
                                     logged |-> Append(acc.logged, res),
                                     sent_any |-> acc.sent_any \/ res = "sent",
                                     raised |-> FALSE],
                                    store, device_id, event_type, outcome, i + 1)

\* the per-event-kind enable flag read by trigger_alert
event_enabled(a, store, event_type) ==
    LET key == CASE event_type = "down" -> "alert_on_down"
                 [] event_type = "recovery" -> "alert_on_recovery"
                 [] OTHER -> "alert_on_ssl_expiry"
    IN Lower(_get_setting(a, store, key, "true")) = "true"

\* the lock written on every call, also on a suppressed one
trigger_alert_always_marks(a, store, windows, device_id, event_type, outcome) ==
    LET sa == should_alert(a, store, windows, device_id, event_type)
    IN IF sa.why # "pass"
       THEN [a |-> _mark_alert_sent(sa.a, device_id, event_type),
             log |-> [NoLog EXCEPT !.event = event_type, !.why = sa.why]]
       ELSE LET a1 == _mark_alert_sent(sa.a, device_id, event_type)
                a2 == _get_settings(a1, store)
            IN IF ~event_enabled(a1, store, event_type)
               THEN [a |-> a2, log |-> [NoLog EXCEPT !.event = event_type,
                                                     !.why = "disabled"]]
               ELSE LET f == fan_out([a |-> a2, invoked |-> <<>>, logged |-> <<>>,
                                      sent_any |-> FALSE, raised |-> FALSE],
                                     store, device_id, event_type, outcome, 1)
                    IN [a |-> f.a,
                        log |-> [event |-> event_type, why |-> "dispatched",
                                 invoked |-> f.invoked, logged |-> f.logged,
                                 sent_any |-> f.sent_any, raised |-> f.raised]]

\* the lock written only once the event kind is known to be enabled
trigger_alert_marks_after_flags(a, store, windows, device_id, event_type, outcome) ==
    LET sa == should_alert(a, store, windows, device_id, event_type)
    IN IF sa.why # "pass"
       THEN [a |-> sa.a, log |-> [NoLog EXCEPT !.event = event_type, !.why = sa.why]]
       ELSE LET a1 == _get_settings(sa.a, store)
                a2 == _mark_alert_sent(a1, device_id, event_type)
            IN IF ~event_enabled(sa.a, store, event_type)
               THEN [a |-> a1, log |-> [NoLog EXCEPT !.event = event_type,
                                                     !.why = "disabled"]]
               ELSE LET f == fan_out([a |-> a2, invoked |-> <<>>, logged |-> <<>>,
                                      sent_any |-> FALSE, raised |-> FALSE],
                                     store, device_id, event_type, outcome, 1)
                    IN [a |-> f.a,
                        log |-> [event |-> event_type, why |-> "dispatched",
                                 invoked |-> f.invoked, logged |-> f.logged,
                                 sent_any |-> f.sent_any, raised |-> f.raised]]

\* Alerter.trigger_alert: [a |-> alerter state after, log |-> what the call did]
trigger_alert(a, store, windows, device_id, event_type, outcome) ==
    LET sa == should_alert(a, store, windows, device_id, event_type)
    IN IF sa.why # "pass"
       THEN [a |-> sa.a, log |-> [NoLog EXCEPT !.event = event_type, !.why = sa.why]]
       ELSE LET a1 == _mark_alert_sent(sa.a, device_id, event_type)
                a2 == _get_settings(a1, store)
            IN IF ~event_enabled(a1, store, event_type)
               THEN [a |-> a2, log |-> [NoLog EXCEPT !.event = event_type,
                                                     !.why = "disabled"]]
               ELSE LET f == fan_out([a |-> a2, invoked |-> <<>>, logged |-> <<>>,
                                      sent_any |-> FALSE, raised |-> FALSE],
                                     store, device_id, event_type, outcome, 1)
                    IN [a |-> f.a,
                        log |-> [event |-> event_type, why |-> "dispatched",
                                 invoked |-> f.invoked, logged |-> f.logged,
                                 sent_any |-> f.sent_any, raised |-> f.raised]]

(* ----------------------- probes: monitor.py ---------------------------- *)
SSL_WARNING_DAYS == 30

MonitorTypes == {"ping", "http", "tcp", "dns", "snmp"}

\* what the network call of a probe meets: a fast or a slow success, a
\* timeout, a refused connection, a name that does not resolve, or a reply
\* that is a protocol error (unexpected HTTP code, SNMP error indication,
\* NXDOMAIN, a connect error code)
Faults == {"none", "slow", "timeout", "refused", "resolution", "protocol"}

\* the result dict of a probe, or a raised exception
NoResult == [status |-> "none", ssl_days_left |-> NoDays, ssl_status |-> "none",
             raised |-> FALSE]

ProbeResult(status) == [NoResult EXCEPT !.status = status]

ProbeRaised == [NoResult EXCEPT !.raised = TRUE]

\* NetworkMonitor.ping_device: every exception is caught
ping_device(fault) ==
    CASE fault = "none" -> ProbeResult("up")
      [] fault = "slow" -> ProbeResult("slow")
      [] OTHER -> ProbeResult("down")

\* NetworkMonitor.check_tcp_port: connect_ex returns an error code for a
\* timeout or a refusal and raises socket.gaierror for a name that does not
\* resolve; the only handler is for socket.timeout
check_tcp_port(fault) ==
    CASE fault = "none" -> ProbeResult("up")
      [] fault = "slow" -> ProbeResult("slow")
      [] fault = "resolution" -> ProbeRaised
      [] OTHER -> ProbeResult("down")

\* NetworkMonitor.check_dns: every exception is caught
check_dns(fault) ==
    CASE fault = "none" -> ProbeResult("up")
      [] fault = "slow" -> ProbeResult("slow")
      [] OTHER -> ProbeResult("down")

\* NetworkMonitor.check_snmp: every exception is caught
check_snmp(fault) ==
    CASE fault = "none" -> ProbeResult("up")
      [] fault = "slow" -> ProbeResult("slow")
      [] OTHER -> ProbeResult("down")

\* the classification with the boundary day counted as not yet expired
ssl_status_strict(days_left, warning_days) ==
    IF days_left = NoDays THEN "unknown"
    ELSE IF days_left < 0 THEN "expired"
    ELSE IF days_left <= warning_days THEN "warning"
    ELSE "ok"

\* NetworkMonitor.check_website, the classification of days_until_expiry
ssl_status(days_left, warning_days) ==
    IF days_left = NoDays THEN "unknown"
    ELSE IF days_left <= 0 THEN "expired"
    ELSE IF days_left <= warning_days THEN "warning"
    ELSE "ok"

\* NetworkMonitor.check_website: a response was received when the fault is
\* none, slow or protocol (unexpected status code); only then, and only for
\* an https URL, the certificate is inspected (days_left = NoDays when
\* check_ssl_certificate found no expiry date)
check_website(fault, is_https, days_left) ==
    IF fault \in {"none", "slow", "protocol"}
    THEN LET status == CASE fault = "none" -> "up"
                         [] fault = "slow" -> "slow"
                         [] OTHER -> "down"
         IN IF is_https
            THEN [status |-> status, ssl_days_left |-> days_left,
                  ssl_status |-> ssl_status(days_left, SSL_WARNING_DAYS),
                  raised |-> FALSE]
            ELSE ProbeResult(status)
    ELSE ProbeResult("down")

\* NetworkMonitor.check_device, the routing to the probe of the monitor type
probe_result(monitor_type, fault, is_https, days_left) ==
    CASE monitor_type = "http" -> check_website(fault, is_https, days_left)
      [] monitor_type = "snmp" -> check_snmp(fault)
      [] monitor_type = "tcp" -> check_tcp_port(fault)
      [] monitor_type = "dns" -> check_dns(fault)
      [] OTHER -> ping_device(fault)

NoCall == [fn |-> "none"]

(* ------------------- NetworkMonitor.check_device: monitor.py ----------- *)
\* the threshold reached one failure early
final_status_early(raw_status, failure_count, previous_status) ==
    IF raw_status = "down"
    THEN IF failure_count >= FAILURE_THRESHOLD - 1
         THEN "down"
         ELSE IF previous_status \in {"up", "slow"} THEN previous_status ELSE "unknown"
    ELSE raw_status

\* below the threshold the previous status kept whatever it is
final_status_keeps_previous(raw_status, failure_count, previous_status) ==
    IF raw_status = "down"
    THEN IF failure_count >= FAILURE_THRESHOLD THEN "down" ELSE previous_status
    ELSE raw_status

\* the raw outcome stored as it is, without the threshold
final_status_no_threshold(raw_status, failure_count, previous_status) ==
    raw_status

\* the consecutive-failure threshold logic: the final status from the raw
\* outcome, the failure count after the update and the status before the check
final_status(raw_status, failure_count, previous_status) ==
    IF raw_status = "down"
    THEN IF failure_count >= FAILURE_THRESHOLD
         THEN "down"
         ELSE IF previous_status \in {"up", "slow"} THEN previous_status ELSE "unknown"
    ELSE raw_status

\* a 'down' trigger on every check that resolves to down
alert_down_every_check(final, previous_status) ==
    final = "down"

\* the 'down' trigger on the checks after the edge instead of on the edge
alert_down_after_edge(final, previous_status) ==
    final = "down" /\ previous_status = "down"

\* the condition of the 'down' trigger
alert_down(final, previous_status) ==
    final = "down" /\ previous_status # "down"

\* recovery decided from the failure counter alone
should_alert_recovery_counter_only(final, previous_status, previous_failure_count) ==
    previous_failure_count >= FAILURE_THRESHOLD /\ final \in {"up", "slow"}

\* recovery decided from the previous status alone
should_alert_recovery_status_only(final, previous_status, previous_failure_count) ==
    previous_status = "down" /\ final \in {"up", "slow"}

\* recovery only for a final status 'up', a slow answer not counting
should_alert_recovery_up_only(final, previous_status, previous_failure_count) ==
    \/ (previous_status = "down" /\ final = "up")
    \/ (previous_failure_count >= FAILURE_THRESHOLD /\ final = "up")

\* should_alert_recovery
should_alert_recovery(final, previous_status, previous_failure_count) ==
    \/ (previous_status = "down" /\ final \in {"up", "slow"})
    \/ (previous_failure_count >= FAILURE_THRESHOLD /\ final \in {"up", "slow"})

\* the trigger tied to the warning window of the classification
alert_ssl_warning_window(ssl_days) ==
    ssl_days # NoDays /\ ssl_days <= SSL_WARNING_DAYS

\* the condition of the 'ssl_expiry' trigger
alert_ssl(ssl_days) ==
    ssl_days # NoDays /\ ssl_days <= SSL_EXPIRY_ALERT_DAYS

AnyRaised(logs) == \E i \in 1..Len(logs) : logs[i].raised

\* the event kinds one check calls trigger_alert for, in source order
alert_events(final, previous_status, previous_failure_count, ssl_days) ==
    (IF alert_down(final, previous_status) THEN <<"down">> ELSE <<>>)
    \o (IF should_alert_recovery(final, previous_status, previous_failure_count)
        THEN <<"recovery">> ELSE <<>>)
    \o (IF alert_ssl(ssl_days) THEN <<"ssl_expiry">> ELSE <<>>)

\* the alerter state and the call logs after one more trigger_alert call t
after_call(acc, t) == [a |-> t.a, logs |-> Append(acc.logs, t.log)]

RECURSIVE alert_triggers(_, _, _, _, _, _, _)
\* the trigger_alert calls of one check from the i-th event on; a call that
\* raises ends the check. acc = [a |-> alerter state, logs |-> logs of the
\* calls made]
alert_triggers(acc, store, windows, device_id, events, outcome, i) ==
    IF i > Len(events) \/ AnyRaised(acc.logs) THEN acc
    ELSE alert_triggers(
             after_call(acc, trigger_alert(acc.a, store, windows, device_id,
                                           events[i], outcome)),
             store, windows, device_id, events, outcome, i + 1)

\* the number of calls of one event kind among the logs of a check
Calls(logs, event_type) ==
    Len(SelectSeq(logs, LAMBDA l : l.event = event_type))

\* the channel invocations of one event kind among the logs of a check
Sends(logs, event_type) ==
    LET ls == SelectSeq(logs, LAMBDA l : l.event = event_type)
    IN IF ls = <<>> THEN 0 ELSE Len(ls[1].invoked)

\* what a 'down' dispatch of device d would meet in the current state
Quiet(d) ==
    /\ ~is_device_in_maintenance(maintenance_windows, d, now)
    /\ recent_alerts[<<d, "down">>] = NoTime
    /\ get_last_alert_time(alert_history, d, "down") = NoTime

Armed ==
    /\ Lower(DictGet(alert_settings, "alert_on_down", "true")) = "true"
    /\ \E c \in {"email_enabled", "line_enabled", "telegram_enabled"} :
          Lower(DictGet(alert_settings, c, "false")) = "true"

NoStreak == [status |-> "unknown", failure_count |-> 0, checks |-> <<>>]

\* observer of check_device: the current run of consecutive raw-down checks of
\* a device, with the state the run started from; at most FAILURE_THRESHOLD
\* checks are kept
streak_after(s, d, raw, final, logs) ==
    IF raw # "down" THEN NoStreak
    ELSE LET entry == [final |-> final,
                       down_calls |-> Calls(logs, "down"),
                       down_sends |-> Sends(logs, "down"),
                       quiet |-> Quiet(d),
                       armed |-> Armed]
             started == IF s.checks = <<>>
                        THEN [status |-> devices[d].status,
                              failure_count |-> devices[d].failure_count,
                              checks |-> <<>>]
                        ELSE s
         IN IF Len(started.checks) < FAILURE_THRESHOLD
            THEN [started EXCEPT !.checks = Append(@, entry)]
            ELSE [started EXCEPT !.checks = Append(Tail(@), entry),
                                 !.status = "down",
                                 !.failure_count = FAILURE_THRESHOLD]

\* observer of trigger_alert: per key, the time of the latest call that
\* should_alert let pass
passed_after(d, logs) ==
    [k \in AlertKeys |->
        IF /\ k[1] = d
           /\ \E i \in 1..Len(logs) : /\ logs[i].event = k[2]
                                       /\ logs[i].why \in {"dispatched", "disabled"}
        THEN now ELSE passed[k]]

NoLast == [op |-> "init", device |-> NoDevice, raw |-> "none",
           previous_status |-> "none", previous_failure_count |-> 0,
           final |-> "none", logs |-> <<>>, raised |-> FALSE]

\* NetworkMonitor.check_device for the device record the caller passes:
\* previous_status is the status in that record, raw the probe's outcome,
\* ssl_days its ssl_days_left (NoDays when absent), outcome the result of each
\* sender's network call
CheckDeviceFrom(d, previous_status, raw, ssl_days, outcome) ==
    \E previous_failure_count \in {get_failure_count(devices, d)} :
    \E devs1 \in {IF raw = "down"
                  THEN increment_failure_count(devices, d)
                  ELSE reset_failure_count(devices, d)} :
    \E final \in {final_status(raw, devs1[d].failure_count, previous_status)} :
    \E t \in {alert_triggers(
                 [a |-> [now |-> now, cache |-> settings_cache,
                         cache_time |-> cache_time, recent |-> recent_alerts,
                         history |-> alert_history],
                  logs |-> <<>>],
                 alert_settings, maintenance_windows, d,
                 alert_events(final, previous_status, previous_failure_count, ssl_days),
                 outcome, 1)} :
       /\ devices' = update_device_status(devs1, d, final)
       /\ now' = t.a.now
       /\ settings_cache' = t.a.cache
       /\ cache_time' = t.a.cache_time
       /\ recent_alerts' = t.a.recent
       /\ alert_history' = t.a.history
       /\ last' = [op |-> "check", device |-> d, raw |-> raw,
                   previous_status |-> previous_status,
                   previous_failure_count |-> previous_failure_count,
                   final |-> final, logs |-> t.logs, raised |-> AnyRaised(t.logs)]
       /\ streak' = [streak EXCEPT ![d] = streak_after(@, d, raw, final, t.logs)]
       /\ passed' = passed_after(d, t.logs)
       /\ UNCHANGED <<maintenance_windows, alert_settings, saves>>

\* the on-demand check routes: the device record is read from the store and
\* passed to check_device at once
CheckDevice(d, raw, ssl_days, outcome) ==
    CheckDeviceFrom(d, devices[d].status, raw, ssl_days, outcome)

\* NetworkMonitor.check_all_devices, its first line: the periodic job reads
\* every device record; the job does not overlap itself
GetAllDevices ==
    /\ call.fn # "check_all_devices"
    /\ call' = [fn |-> "check_all_devices",
                devices |-> [d \in Devices |-> devices[d].status],
                pending |-> Devices]
    /\ last' = [NoLast EXCEPT !.op = "get_all_devices"]
    /\ UNCHANGED <<now, devices, maintenance_windows, alert_settings,
                   settings_cache, cache_time, recent_alerts, alert_history,
                   streak, passed, saves>>

\* NetworkMonitor.check_all_devices, one turn of its loop: check_device on the
\* record read at the start of the job
CycleCheckDevice(d, raw, ssl_days, outcome) ==
    /\ call.fn = "check_all_devices"
    /\ d \in call.pending
    /\ CheckDeviceFrom(d, call.devices[d], raw, ssl_days, outcome)
    /\ call' = IF call.pending = {d} THEN NoCall
               ELSE [call EXCEPT !.pending = @ \ {d}]

\* NetworkMonitor.check_device from its first line: the probe of the monitor
\* type runs first; when it raises, check_device raises with nothing written
CheckDeviceVia(d, monitor_type, fault, is_https, days_left, outcome) ==
    \E result \in {probe_result(monitor_type, fault, is_https, days_left)} :
       /\ call' = [fn |-> "probe", monitor_type |-> monitor_type, fault |-> fault,
                   is_https |-> is_https, days_left |-> days_left,
                   result |-> result]
       /\ IF result.raised
          THEN /\ last' = [NoLast EXCEPT !.op = "check", !.device = d,
                                         !.raised = TRUE]
               /\ UNCHANGED <<now, devices, maintenance_windows, alert_settings,
                              settings_cache, cache_time, recent_alerts,
                              alert_history, streak, passed, saves>>
          ELSE CheckDevice(d, result.status, result.ssl_days_left, outcome)

\* one call of Alerter.send_telegram with the inputs held in call
SendTelegram ==
    /\ call.fn = "send_telegram"
    /\ ~call.done
    /\ call' = [call EXCEPT !.done = TRUE,
                            !.result = send_telegram(call.has_token, call.tokens,
                                                     call.replies)]
    /\ UNCHANGED <<now, devices, maintenance_windows, alert_settings,
                   settings_cache, cache_time, recent_alerts, alert_history,
                   last, streak, passed, saves>>

(* --------------- check_device statement by statement ------------------- *)
\* the Alerter's fields and the store's alert history as one record, and the
\* assignment of such a record back to the state
AlerterNow ==
    [now |-> now, cache |-> settings_cache, cache_time |-> cache_time,
     recent |-> recent_alerts, history |-> alert_history]

AlerterBecomes(a) ==
    /\ now' = a.now
    /\ settings_cache' = a.cache
    /\ cache_time' = a.cache_time
    /\ recent_alerts' = a.recent
    /\ alert_history' = a.history

\* the dispatch placed before the status is stored
next_step_alert_first(pc) ==
    CASE pc = "get_failure_count" -> "update_failure_count"
      [] pc = "update_failure_count" -> "final_status"
      [] pc = "final_status" -> "should_alert"
      [] pc = "update_device_status" -> "should_alert"
      [] pc = "should_alert" -> "_mark_alert_sent"
      [] pc = "_mark_alert_sent" -> "event_enabled"
      [] pc = "event_enabled" -> "send"
      [] OTHER -> "send"

\* the lock written after the sends instead of before them
next_step_mark_last(pc) ==
    CASE pc = "get_failure_count" -> "update_failure_count"
      [] pc = "update_failure_count" -> "final_status"
      [] pc = "final_status" -> "update_device_status"
      [] pc = "update_device_status" -> "should_alert"
      [] pc = "should_alert" -> "event_enabled"
      [] pc = "event_enabled" -> "send"
      [] pc = "send" -> "_mark_alert_sent"
      [] OTHER -> "send"

\* the statement that follows pc in check_device and, inside it, in
\* trigger_alert: monitor.py:552 get_failure_count, :555/:568 the counter
\* update, :558-569 the final status, :579 update_device_status, then per
\* triggered event alerter.py:256 should_alert, :262 _mark_alert_sent,
\* :265-274 the event flags, :291-333 the channel blocks
next_step(pc) ==
    CASE pc = "get_failure_count" -> "update_failure_count"
      [] pc = "update_failure_count" -> "final_status"
      [] pc = "final_status" -> "update_device_status"
      [] pc = "update_device_status" -> "should_alert"
      [] pc = "should_alert" -> "_mark_alert_sent"
      [] pc = "_mark_alert_sent" -> "event_enabled"
      [] pc = "event_enabled" -> "send"
      [] OTHER -> "send"

\* the locals of a check in progress
Running == call.fn = "check_device"

At(pc) == Running /\ call.pc = pc

\* the event kinds this check calls trigger_alert for, from its locals
call_events ==
    alert_events(call.final, call.previous_status, call.previous_failure_count,
                 NoDays)

\* the event of the trigger_alert call in progress
call_event == call_events[call.ei]

\* the locals after the trigger_alert call in progress has returned
next_event == [call EXCEPT !.pc = "should_alert", !.ei = @ + 1, !.ci = 1]

StepLast == [NoLast EXCEPT !.op = call.pc, !.device = call.device]

\* check_device entered by an on-demand route, its probe done
StartCheck(d, raw, outcome) ==
    /\ call.fn = "none"
    /\ call' = [fn |-> "check_device", pc |-> "get_failure_count", device |-> d,
                previous_status |-> devices[d].status, raw |-> raw,
                outcome |-> outcome, previous_failure_count |-> 0,
                failure_count |-> 0, final |-> raw, ei |-> 1, ci |-> 1,
                persisted |-> FALSE]
    /\ last' = [NoLast EXCEPT !.op = "start_check", !.device = d]
    /\ UNCHANGED <<now, devices, maintenance_windows, alert_settings,
                   settings_cache, cache_time, recent_alerts, alert_history,
                   streak, passed, saves>>

\* monitor.py:552
StepGetFailureCount ==
    /\ At("get_failure_count")
    /\ call' = [call EXCEPT !.pc = next_step(call.pc),
                            !.previous_failure_count =
                                get_failure_count(devices, call.device)]
    /\ last' = StepLast
    /\ UNCHANGED <<now, devices, maintenance_windows, alert_settings,
                   settings_cache, cache_time, recent_alerts, alert_history,
                   streak, passed, saves>>

\* monitor.py:554-556 and :567-568
StepUpdateFailureCount ==
    /\ At("update_failure_count")
    /\ devices' = IF call.raw = "down"
                  THEN increment_failure_count(devices, call.device)
                  ELSE reset_failure_count(devices, call.device)
    /\ call' = [call EXCEPT !.pc = next_step(call.pc),
                            !.failure_count = devices'[call.device].failure_count]
    /\ last' = StepLast
    /\ UNCHANGED <<now, maintenance_windows, alert_settings,
                   settings_cache, cache_time, recent_alerts, alert_history,
                   streak, passed, saves>>

\* monitor.py:558-569
StepFinalStatus ==
    /\ At("final_status")
    /\ call' = [call EXCEPT !.pc = next_step(call.pc),
                            !.final = final_status(call.raw, call.failure_count,
                                                   call.previous_status)]
    /\ last' = StepLast
    /\ UNCHANGED <<now, devices, maintenance_windows, alert_settings,
                   settings_cache, cache_time, recent_alerts, alert_history,
                   streak, passed, saves>>

\* monitor.py:579-593
StepUpdateDeviceStatus ==
    /\ At("update_device_status")
    /\ devices' = update_device_status(devices, call.device, call.final)
    /\ call' = [call EXCEPT !.pc = next_step(call.pc), !.persisted = TRUE]
    /\ last' = StepLast
    /\ UNCHANGED <<now, maintenance_windows, alert_settings,
                   settings_cache, cache_time, recent_alerts, alert_history,
                   streak, passed, saves>>

\* monitor.py:598-622 and alerter.py:256-259: the next trigger condition that
\* holds enters trigger_alert, whose first statement is should_alert; with no
\* condition left check_device returns
StepShouldAlert ==
    /\ At("should_alert")
    /\ last' = StepLast
    /\ IF call.ei > Len(call_events)
       THEN /\ call' = NoCall
            /\ UNCHANGED <<now, settings_cache, cache_time, recent_alerts,
                           alert_history>>
       ELSE \E sa \in {should_alert(AlerterNow, alert_settings,
                                     maintenance_windows, call.device,
                                     call_event)} :
               /\ AlerterBecomes(sa.a)
               /\ call' = IF sa.why = "pass"
                          THEN [call EXCEPT !.pc = next_step(call.pc)]
                          ELSE next_event
    /\ UNCHANGED <<devices, maintenance_windows, alert_settings, streak, passed,
                   saves>>

\* alerter.py:262
StepMarkAlertSent ==
    /\ At("_mark_alert_sent")
    /\ AlerterBecomes(_mark_alert_sent(AlerterNow, call.device, call_event))
    /\ call' = [call EXCEPT !.pc = next_step(call.pc)]
    /\ last' = StepLast
    /\ UNCHANGED <<devices, maintenance_windows, alert_settings, streak, passed,
                   saves>>

\* alerter.py:265-274
StepEventEnabled ==
    /\ At("event_enabled")
    /\ AlerterBecomes(_get_settings(AlerterNow, alert_settings))
    /\ call' = IF event_enabled(AlerterNow, alert_settings, call_event)
               THEN [call EXCEPT !.pc = next_step(call.pc)]
               ELSE next_event
    /\ last' = StepLast
    /\ UNCHANGED <<devices, maintenance_windows, alert_settings, streak, passed,
                   saves>>

\* alerter.py:291-333, the block of channel call.ci: is_enabled, the sender,
\* log_alert; a sender that raises ends check_device
StepSend ==
    /\ At("send")
    /\ \E channel \in {Channels[call.ci]},
          a1 \in {_get_settings(AlerterNow, alert_settings)} :
       \E res \in {IF is_enabled(AlerterNow, alert_settings, channel)
                    THEN send_result(a1, alert_settings, channel, call.outcome)
                    ELSE "skipped"} :
          /\ AlerterBecomes(
                 IF res \in {"skipped", "raised"} THEN a1
                 ELSE [a1 EXCEPT !.history =
                          log_alert(@, call.device, call_event, channel, res,
                                    a1.now)])
          /\ call' = IF res = "raised" THEN NoCall
                     ELSE IF call.ci < Len(Channels)
                     THEN [call EXCEPT !.ci = @ + 1]
                     ELSE next_event
          /\ last' = [StepLast EXCEPT !.raised = (res = "raised"),
                                      !.logs = IF res = "skipped" THEN <<>>
                                               ELSE <<[NoLog EXCEPT
                                                        !.event = call_event,
                                                        !.why = "dispatched",
                                                        !.invoked = <<channel>>]>>]
    /\ UNCHANGED <<devices, maintenance_windows, alert_settings, streak, passed,
                   saves>>

\* Alerter.trigger_alert called for device d and one event kind
TriggerAlert(d, event_type, outcome) ==
    \E t \in {trigger_alert([now |-> now, cache |-> settings_cache,
                             cache_time |-> cache_time, recent |-> recent_alerts,
                             history |-> alert_history],
                            alert_settings, maintenance_windows, d,
                            event_type, outcome)} :
       /\ now' = t.a.now
       /\ settings_cache' = t.a.cache
       /\ cache_time' = t.a.cache_time
       /\ recent_alerts' = t.a.recent
       /\ alert_history' = t.a.history
       /\ last' = [NoLast EXCEPT !.op = "trigger", !.device = d,
                                 !.logs = <<t.log>>, !.raised = t.log.raised]
       /\ passed' = passed_after(d, <<t.log>>)
       /\ UNCHANGED <<devices, maintenance_windows, alert_settings, streak, saves, call>>

(* ------------------------------ routes --------------------------------- *)
\* the request bodies posted to the save-settings route: the settings page
\* posts every field
TelegramOnly ==
    [email_enabled |-> "false", line_enabled |-> "false",
     telegram_enabled |-> "true", alert_on_down |-> "true",
     alert_on_recovery |-> "true", alert_on_ssl_expiry |-> "true",
     alert_cooldown |-> "300", smtp_port |-> "587"]

AllChannels ==
    [TelegramOnly EXCEPT !.email_enabled = "True", !.line_enabled = "true",
                         !.smtp_port = "465"]

EmptyPort ==
    [TelegramOnly EXCEPT !.email_enabled = "true", !.smtp_port = ""]

DownOff == [TelegramOnly EXCEPT !.alert_on_down = "false"]

ShortCooldown == [TelegramOnly EXCEPT !.alert_cooldown = "60"]

SettingsForms == {TelegramOnly, AllChannels, EmptyPort, DownOff, ShortCooldown}

\* routes/alerts.py save_alert_settings: every posted key is written to the
\* store, then the alerter's cache is invalidated
SaveSettings(data) ==
    /\ alert_settings' = [k \in SettingKeys |->
                             IF k \in DOMAIN data THEN data[k] ELSE alert_settings[k]]
    /\ alert_settings' # alert_settings
    /\ cache_time' = NoTime
    /\ last' = [NoLast EXCEPT !.op = "save_settings"]
    /\ saves' = saves + 1
    /\ UNCHANGED <<now, devices, maintenance_windows, settings_cache,
                   recent_alerts, alert_history, streak, passed, call>>

WindowLengths == {1}

\* routes/maintenance.py add_maintenance_window: a window for one device or
\* for all (device_id NULL), starting now
AddMaintenanceWindow(device_id, len) ==
    /\ Cardinality(maintenance_windows) < MaxWindows
    /\ maintenance_windows' = maintenance_windows \cup
          {[device_id |-> device_id, start_time |-> now, end_time |-> now + len]}
    /\ last' = [NoLast EXCEPT !.op = "add_window"]
    /\ UNCHANGED <<now, devices, alert_settings, settings_cache, cache_time,
                   recent_alerts, alert_history, streak, passed, saves, call>>

\* routes/maintenance.py delete_maintenance_window
DeleteMaintenanceWindow(w) ==
    /\ w \in maintenance_windows
    /\ maintenance_windows' = maintenance_windows \ {w}
    /\ last' = [NoLast EXCEPT !.op = "delete_window"]
    /\ UNCHANGED <<now, devices, alert_settings, settings_cache, cache_time,
                   recent_alerts, alert_history, streak, passed, saves, call>>

\* the wall clock advances
Tick ==
    /\ now' = now + 1
    /\ last' = [NoLast EXCEPT !.op = "tick"]
    /\ UNCHANGED <<devices, maintenance_windows, alert_settings, settings_cache,
                   cache_time, recent_alerts, alert_history, streak, passed, saves,
                   call>>

(* --------------------------- specification ----------------------------- *)
\* the results of the senders' network calls
Outcomes ==
    { [c \in ChannelSet |-> "sent"],
      [c \in ChannelSet |-> "failed"],
      [c \in ChannelSet |-> IF c = "email" THEN "failed" ELSE "sent"],
      [c \in ChannelSet |-> IF c = "telegram" THEN "failed" ELSE "sent"] }

\* a fresh store (status 'unknown') or one migrated from a version without
\* the failure counter (any status, counter 0); a new Alerter
Init ==
    /\ now = 0
    /\ devices \in [Devices -> [status : Statuses, failure_count : {0}]]
    /\ maintenance_windows = {}
    /\ alert_settings = NoSettings
    /\ settings_cache = NoSettings
    /\ cache_time = NoTime
    /\ recent_alerts = [k \in AlertKeys |-> NoTime]
    /\ alert_history = <<>>
    /\ last = NoLast
    /\ streak = [d \in Devices |-> NoStreak]
    /\ passed = [k \in AlertKeys |-> NoTime]
    /\ saves = 0
    /\ call = NoCall

\* the runs explored: the clock stops at maxt, the alert history holds at
\* most maxh rows, the failure counter stays within MaxFailureCount
Within(maxt, maxh) ==
    /\ now' <= maxt
    /\ Len(alert_history') <= maxh
    /\ \A d \in Devices : devices'[d].failure_count <= MaxFailureCount

\* a check of any device with any probe outcome
Check(ssls) ==
    \E d \in Devices, raw \in RawStatuses, ssl_days \in ssls,
       outcome \in Outcomes :
       CheckDevice(d, raw, ssl_days, outcome) /\ UNCHANGED call

\* a call of trigger_alert for any device and event kind
Trigger(events) ==
    \E d \in Devices, event_type \in events, outcome \in Outcomes :
       TriggerAlert(d, event_type, outcome)

Save(forms) == saves < MaxSaves /\ \E data \in forms : SaveSettings(data)

AddWindow ==
    \E device_id \in Devices \cup {NoDevice}, len \in WindowLengths :
       AddMaintenanceWindow(device_id, len)

DeleteWindow == \E w \in maintenance_windows : DeleteMaintenanceWindow(w)

\* the check pipeline: checks, settings saves and the clock
Next ==
    \/ Tick /\ Within(MaxCheckTime, MaxCheckHistory)
    \/ Check({NoDays}) /\ Within(MaxCheckTime, MaxCheckHistory)
    \/ Save({TelegramOnly, DownOff, EmptyPort})

Spec == Init /\ [][Next]_vars

\* the check pipeline under one settings form, with maintenance windows
NextMaintenance ==
    \/ Tick /\ Within(MaxCheckTime, MaxCheckHistory)
    \/ Check({NoDays}) /\ Within(MaxCheckTime, MaxCheckHistory)
    \/ Save({TelegramOnly})
    \/ AddWindow
    \/ DeleteWindow

SpecMaintenance == Init /\ [][NextMaintenance]_vars

InitAlerter == Init /\ \A d \in Devices : devices[d].status = "unknown"

\* the dispatcher on its own: calls of trigger_alert, settings saves and the
\* clock
NextAlerter ==
    \/ Tick /\ Within(MaxTime, MaxHistory)
    \/ Trigger({"down", "recovery"}) /\ Within(MaxTime, MaxHistory)
    \/ Save(SettingsForms)

SpecAlerter == InitAlerter /\ [][NextAlerter]_vars

\* the dispatcher under one settings form, with maintenance windows
NextAlerterMaintenance ==
    \/ Tick /\ Within(MaxTime, MaxCheckHistory)
    \/ Trigger({"down", "recovery"}) /\ Within(MaxTime, MaxCheckHistory)
    \/ Save({TelegramOnly})
    \/ AddWindow
    \/ DeleteWindow

SpecAlerterMaintenance == InitAlerter /\ [][NextAlerterMaintenance]_vars

\* the days_until_expiry values a certificate inspection yields
SslDays == {NoDays, -1, 0, 7, 8, 30, 31}

\* a check of any device of any monitor type against any network behaviour
CheckVia ==
    \E d \in Devices, monitor_type \in MonitorTypes, fault \in Faults,
       is_https \in BOOLEAN, days_left \in SslDays,
       outcome \in {[c \in ChannelSet |-> "sent"]} :
       /\ monitor_type # "http" => (~is_https /\ days_left = NoDays)
       /\ (~is_https \/ fault \notin {"none", "protocol"}) => days_left = NoDays
       /\ CheckDeviceVia(d, monitor_type, fault, is_https, days_left, outcome)

\* checks from the probe on and settings saves, within one tick
NextProbe ==
    \/ CheckVia /\ Within(MaxCheckTime, MaxProbeHistory)
    \/ Save({TelegramOnly, EmptyPort})

SpecProbe == InitAlerter /\ [][NextProbe]_vars

\* the telegram_chat_id settings of up to MaxRecipients pieces
TokenLists ==
    UNION {[1..n -> ChatIdTokens] : n \in 1..MaxRecipients}

\* send_telegram on its own: any token setting, any recipient list, any
\* replies
InitTelegram ==
    /\ now = 0
    /\ devices = [d \in Devices |-> [status |-> "unknown", failure_count |-> 0]]
    /\ maintenance_windows = {}
    /\ alert_settings = NoSettings
    /\ settings_cache = NoSettings
    /\ cache_time = NoTime
    /\ recent_alerts = [k \in AlertKeys |-> NoTime]
    /\ alert_history = <<>>
    /\ last = NoLast
    /\ streak = [d \in Devices |-> NoStreak]
    /\ passed = [k \in AlertKeys |-> NoTime]
    /\ saves = 0
    /\ call \in [fn : {"send_telegram"}, has_token : BOOLEAN,
                  tokens : TokenLists, replies : [ChatIds -> Replies],
                  done : {FALSE}, result : {NoTelegramResult}]

NextTelegram == SendTelegram

SpecTelegram == InitTelegram /\ [][NextTelegram]_vars

\* a turn of the periodic job's loop with any probe outcome
CycleCheck ==
    \E d \in Devices, raw \in RawStatuses, outcome \in Outcomes :
       CycleCheckDevice(d, raw, NoDays, outcome)

\* the periodic job and the on-demand checks of a new store, within one tick
NextCycle ==
    \/ GetAllDevices
    \/ CycleCheck /\ Within(MaxCheckTime, MaxCheckHistory)
    \/ Check({NoDays}) /\ Within(MaxCheckTime, MaxCheckHistory)
    \/ Save({TelegramOnly})

SpecCycle == InitAlerter /\ [][NextCycle]_vars

\* one statement of the check in progress
Step ==
    \/ StepGetFailureCount
    \/ StepUpdateFailureCount
    \/ StepFinalStatus
    \/ StepUpdateDeviceStatus
    \/ StepShouldAlert
    \/ StepMarkAlertSent
    \/ StepEventEnabled
    \/ StepSend

\* the results of the senders' network calls in the statement-level runs
StepOutcomes ==
    { [c \in ChannelSet |-> "sent"], [c \in ChannelSet |-> "failed"] }

\* an on-demand check and a turn of the periodic job's loop during an
\* outage: the probe fails
OutageCheck ==
    \E d \in Devices, outcome \in StepOutcomes :
       CheckDevice(d, "down", NoDays, outcome) /\ UNCHANGED call

OutageCycleCheck ==
    \E d \in Devices, outcome \in StepOutcomes :
       CycleCheckDevice(d, "down", NoDays, outcome)

\* an outage of a new device: every probe of the periodic job and of the
\* on-demand checks fails, while the clock advances, settings are saved and
\* maintenance windows come and go
NextOutage ==
    \/ Tick /\ Within(MaxCheckTime, MaxCheckHistory)
    \/ GetAllDevices
    \/ OutageCycleCheck /\ Within(MaxCheckTime, MaxCheckHistory)
    \/ OutageCheck /\ Within(MaxCheckTime, MaxCheckHistory)
    \/ Save({TelegramOnly})
    \/ AddWindow
    \/ DeleteWindow

SpecOutage == InitAlerter /\ [][NextOutage]_vars

\* a dispatch by another thread while a check is in progress
ConcurrentTrigger ==
    /\ Running
    /\ \E d \in Devices, event_type \in {"down", "recovery"} :
          TriggerAlert(d, event_type, [c \in ChannelSet |-> "sent"])

\* one check at a time run statement by statement, within one tick, while
\* another thread calls trigger_alert and settings are saved
NextSteps ==
    \/ (\E d \in Devices, raw \in RawStatuses, outcome \in StepOutcomes :
           StartCheck(d, raw, outcome))
    \/ Step /\ Within(MaxCheckTime, MaxHistory)
    \/ ConcurrentTrigger /\ Within(MaxCheckTime, MaxHistory)
    \/ Save({AllChannels})

SpecSteps == Init /\ [][NextSteps]_vars

\* the probe outcomes of the overlapping check in the runs explored
OverlapRawStatuses == {"up", "slow"}

\* a request thread runs check_device for a device while the check of
\* another thread is in progress: no entry point takes a lock or looks for a
\* check already running
ConcurrentCheck ==
    /\ Running
    /\ \E d \in Devices, raw \in OverlapRawStatuses :
          /\ CheckDevice(d, raw, NoDays, [c \in ChannelSet |-> "sent"])
          /\ UNCHANGED call

\* a check run statement by statement while request threads run checks of
\* their own, within one tick
NextOverlap ==
    \/ (\E d \in Devices, raw \in RawStatuses, outcome \in StepOutcomes :
           StartCheck(d, raw, outcome))
    \/ Step /\ Within(MaxCheckTime, MaxCheckHistory)
    \/ ConcurrentCheck /\ Within(MaxCheckTime, MaxCheckHistory)
    \/ Save({TelegramOnly})

SpecOverlap == InitAlerter /\ [][NextOverlap]_vars

(* ------------- the settings cache between two threads ------------------ *)
\* In these runs call holds the locals of the thread inside _get_settings
\* (reader) and the position of the request inside save_alert_settings
\* (writer). entry_saves and entry_quiet note, for the claims, how many store
\* writes had been made when the reader's call began and whether no save
\* request was then in progress.
IdleReader ==
    [pc |-> "idle", now |-> 0, settings |-> NoSettings, returned |-> NoSettings,
     read_store |-> FALSE, entry_saves |-> 0, entry_quiet |-> TRUE]

IdleWriter == [pc |-> "idle"]

InSettings == call.fn = "settings"

\* alerter.py:26-28: the clock is read and a snapshot younger than the TTL is
\* returned at once; otherwise the call goes on to read the store
GetSettingsEnter ==
    /\ InSettings
    /\ call.reader.pc \in {"idle", "returned"}
    /\ call' = [call EXCEPT !.reader =
          IF cache_time # NoTime /\ Elapsed(now, cache_time) < CacheSeconds
          THEN [pc |-> "returned", now |-> now, settings |-> NoSettings,
                returned |-> settings_cache, read_store |-> FALSE,
                entry_saves |-> saves, entry_quiet |-> call.writer.pc = "idle"]
          ELSE [pc |-> "get_all_alert_settings", now |-> now,
                settings |-> NoSettings, returned |-> NoSettings,
                read_store |-> FALSE,
                entry_saves |-> saves, entry_quiet |-> call.writer.pc = "idle"]]
    /\ last' = [NoLast EXCEPT !.op = "_get_settings"]
    /\ UNCHANGED <<now, devices, maintenance_windows, alert_settings,
                   settings_cache, cache_time, recent_alerts, alert_history,
                   streak, passed, saves>>

\* alerter.py:30: settings = self.db.get_all_alert_settings()
GetSettingsRead ==
    /\ InSettings
    /\ call.reader.pc = "get_all_alert_settings"
    /\ call' = [call EXCEPT !.reader.pc = "assign",
                            !.reader.settings = alert_settings,
                            !.reader.read_store = TRUE]
    /\ last' = [NoLast EXCEPT !.op = "get_all_alert_settings"]
    /\ UNCHANGED <<now, devices, maintenance_windows, alert_settings,
                   settings_cache, cache_time, recent_alerts, alert_history,
                   streak, passed, saves>>

\* alerter.py:31-33: the rows read become the snapshot, stamped with the
\* time read at the start of the call, and are returned
GetSettingsAssign ==
    /\ InSettings
    /\ call.reader.pc = "assign"
    /\ settings_cache' = call.reader.settings
    /\ cache_time' = call.reader.now
    /\ call' = [call EXCEPT !.reader.pc = "returned",
                            !.reader.returned = call.reader.settings]
    /\ last' = [NoLast EXCEPT !.op = "assign_cache"]
    /\ UNCHANGED <<now, devices, maintenance_windows, alert_settings,
                   recent_alerts, alert_history, streak, passed, saves>>

\* routes/alerts.py:36-38: the loop of db.save_alert_setting over the posted
\* keys
SaveAlertSetting(data) ==
    /\ InSettings
    /\ call.writer.pc = "idle"
    /\ saves < MaxSaves
    /\ alert_settings' = [k \in SettingKeys |->
                             IF k \in DOMAIN data THEN data[k] ELSE alert_settings[k]]
    /\ alert_settings' # alert_settings
    /\ saves' = saves + 1
    /\ call' = [call EXCEPT !.writer.pc = "invalidate"]
    /\ last' = [NoLast EXCEPT !.op = "save_alert_setting"]
    /\ UNCHANGED <<now, devices, maintenance_windows, settings_cache,
                   cache_time, recent_alerts, alert_history, streak, passed>>

\* routes/alerts.py:41-44: alerter._cache_time = None, and the request returns
InvalidateCache ==
    /\ InSettings
    /\ call.writer.pc = "invalidate"
    /\ cache_time' = NoTime
    /\ call' = [call EXCEPT !.writer.pc = "idle"]
    /\ last' = [NoLast EXCEPT !.op = "save_settings"]
    /\ UNCHANGED <<now, devices, maintenance_windows, alert_settings,
                   settings_cache, recent_alerts, alert_history, streak, passed,
                   saves>>

\* a new Alerter and an empty settings table, one thread reading settings and
\* one save request at a time
InitSettings ==
    /\ now = 0
    /\ devices = [d \in Devices |-> [status |-> "unknown", failure_count |-> 0]]
    /\ maintenance_windows = {}
    /\ alert_settings = NoSettings
    /\ settings_cache = NoSettings
    /\ cache_time = NoTime
    /\ recent_alerts = [k \in AlertKeys |-> NoTime]
    /\ alert_history = <<>>
    /\ last = NoLast
    /\ streak = [d \in Devices |-> NoStreak]
    /\ passed = [k \in AlertKeys |-> NoTime]
    /\ saves = 0
    /\ call = [fn |-> "settings", reader |-> IdleReader, writer |-> IdleWriter]

\* _get_settings calls of a checking thread against save requests of the
\* settings page, statement by statement, and the clock
NextSettings ==
    \/ Tick /\ Within(MaxCheckTime, MaxHistory)
    \/ GetSettingsEnter
    \/ GetSettingsRead
    \/ GetSettingsAssign
    \/ (\E data \in {TelegramOnly, DownOff, ShortCooldown} : SaveAlertSetting(data))
    \/ InvalidateCache

SpecSettings == InitSettings /\ [][NextSettings]_vars

(* ------------- trigger_alert in two threads, statement by statement ---- *)
\* In these runs call.t holds, per thread, the position inside trigger_alert
\* and the locals of _mark_alert_sent: the dict the comprehension iterates
\* (iter, with the keys it held when the iteration began, and live = it is
\* still the object self._recent_alerts refers to) and the dict it built
\* (pruned). reached and rival note, for the claims, whether the call got to
\* the channel blocks and whether a call of the other thread overlapped it.
Threads == {1, 2}

NoLocks == [k \in AlertKeys |-> NoTime]

IdleThread ==
    [pc |-> "idle", device |-> NoDevice, event |-> "none", why |-> "none",
     iter |-> NoLocks, keys |-> {}, live |-> FALSE, pruned |-> NoLocks,
     reached |-> FALSE, rival |-> FALSE, raised |-> FALSE]

InThreads == call.fn = "threads"

Other(th) == CHOOSE o \in Threads : o # th

ThreadAt(th, pc) == InThreads /\ call.t[th].pc = pc

ThreadKey(th) == <<call.t[th].device, call.t[th].event>>

\* the keys a lock dict holds
PresentKeys(recent) == {k \in AlertKeys : recent[k] # NoTime}

\* alerter.py:242-246, the comprehension: the entries newer than the cutoff
prune_recent(recent, t) ==
    [k \in AlertKeys |->
        IF recent[k] # NoTime /\ Elapsed(t, recent[k]) < RetentionSeconds
        THEN recent[k] ELSE NoTime]

ThreadLast(th) ==
    [NoLast EXCEPT !.op = call.t[th].pc, !.device = call.t[th].device]

\* alerter.py:248-254: a thread enters trigger_alert for device d and one
\* event kind
ThreadEnter(th, d, event_type) ==
    /\ ThreadAt(th, "idle")
    /\ call' = [call EXCEPT
          !.t[th] = [IdleThread EXCEPT !.pc = "should_alert", !.device = d,
                                       !.event = event_type,
                                       !.rival = call.t[Other(th)].pc # "idle"],
          !.t[Other(th)].rival = @ \/ call.t[Other(th)].pc # "idle"]
    /\ last' = [NoLast EXCEPT !.op = "trigger_alert", !.device = d]
    /\ UNCHANGED <<now, devices, maintenance_windows, alert_settings,
                   settings_cache, cache_time, recent_alerts, alert_history,
                   streak, passed, saves>>

\* alerter.py:256-259
ThreadShouldAlert(th) ==
    /\ ThreadAt(th, "should_alert")
    /\ \E sa \in {should_alert(AlerterNow, alert_settings, maintenance_windows,
                               call.t[th].device, call.t[th].event)} :
          /\ AlerterBecomes(sa.a)
          /\ call' = [call EXCEPT !.t[th].why = sa.why,
                                  !.t[th].pc = IF sa.why = "pass"
                                               THEN "mark_write" ELSE "idle"]
    /\ last' = ThreadLast(th)
    /\ UNCHANGED <<devices, maintenance_windows, alert_settings, streak, passed,
                   saves>>

\* alerter.py:239: self._recent_alerts[alert_key] = datetime.now(), a write
\* into the dict object the attribute refers to, which the other thread may
\* be iterating
ThreadMarkWrite(th) ==
    /\ ThreadAt(th, "mark_write")
    /\ recent_alerts' = [recent_alerts EXCEPT ![ThreadKey(th)] = now]
    /\ call' = [call EXCEPT
          !.t[th].pc = "prune_begin",
          !.t[Other(th)].iter = IF call.t[Other(th)].live
                                THEN recent_alerts' ELSE @]
    /\ last' = ThreadLast(th)
    /\ UNCHANGED <<now, devices, maintenance_windows, alert_settings,
                   settings_cache, cache_time, alert_history, streak, passed,
                   saves>>

\* alerter.py:244: self._recent_alerts.items() starts the iteration of the
\* comprehension
ThreadPruneBegin(th) ==
    /\ ThreadAt(th, "prune_begin")
    /\ call' = [call EXCEPT !.t[th].pc = "prune_end",
                            !.t[th].iter = recent_alerts,
                            !.t[th].keys = PresentKeys(recent_alerts),
                            !.t[th].live = TRUE]
    /\ last' = ThreadLast(th)
    /\ UNCHANGED <<now, devices, maintenance_windows, alert_settings,
                   settings_cache, cache_time, recent_alerts, alert_history,
                   streak, passed, saves>>

\* alerter.py:243-246: the iteration ends; a dict that gained a key while it
\* was iterated raises RuntimeError out of trigger_alert, otherwise the new
\* dict is built
ThreadPruneEnd(th) ==
    /\ ThreadAt(th, "prune_end")
    /\ call' = [call EXCEPT !.t[th] =
          IF PresentKeys(call.t[th].iter) # call.t[th].keys
          THEN [@ EXCEPT !.pc = "idle", !.live = FALSE, !.raised = TRUE]
          ELSE [@ EXCEPT !.pc = "mark_assign", !.live = FALSE,
                         !.pruned = prune_recent(call.t[th].iter, now)]]
    /\ last' = [ThreadLast(th) EXCEPT
                   !.raised = PresentKeys(call.t[th].iter) # call.t[th].keys]
    /\ UNCHANGED <<now, devices, maintenance_windows, alert_settings,
                   settings_cache, cache_time, recent_alerts, alert_history,
                   streak, passed, saves>>

\* alerter.py:243: the new dict is assigned to self._recent_alerts; a dict
\* the other thread iterates is no longer the attribute's object
ThreadMarkAssign(th) ==
    /\ ThreadAt(th, "mark_assign")
    /\ recent_alerts' = call.t[th].pruned
    /\ call' = [call EXCEPT !.t[th].pc = "event_enabled",
                            !.t[Other(th)].live = FALSE]
    /\ last' = ThreadLast(th)
    /\ UNCHANGED <<now, devices, maintenance_windows, alert_settings,
                   settings_cache, cache_time, alert_history, streak, passed,
                   saves>>

\* alerter.py:265-274
ThreadEventEnabled(th) ==
    /\ ThreadAt(th, "event_enabled")
    /\ AlerterBecomes(_get_settings(AlerterNow, alert_settings))
    /\ call' = IF event_enabled(AlerterNow, alert_settings, call.t[th].event)
               THEN [call EXCEPT !.t[th].pc = "send", !.t[th].reached = TRUE]
               ELSE [call EXCEPT !.t[th].pc = "idle", !.t[th].why = "disabled"]
    /\ last' = ThreadLast(th)
    /\ UNCHANGED <<devices, maintenance_windows, alert_settings, streak, passed,
                   saves>>

\* alerter.py:289-336: the three channel blocks
ThreadSend(th, outcome) ==
    /\ ThreadAt(th, "send")
    /\ \E f \in {fan_out([a |-> AlerterNow, invoked |-> <<>>, logged |-> <<>>,
                          sent_any |-> FALSE, raised |-> FALSE],
                         alert_settings, call.t[th].device, call.t[th].event,
                         outcome, 1)} :
          /\ AlerterBecomes(f.a)
          /\ call' = [call EXCEPT !.t[th].pc = "idle",
                                  !.t[th].why = "dispatched",
                                  !.t[th].raised = f.raised]
          /\ last' = [ThreadLast(th) EXCEPT
                         !.raised = f.raised,
                         !.logs = <<[event |-> call.t[th].event,
                                     why |-> "dispatched", invoked |-> f.invoked,
                                     logged |-> f.logged, sent_any |-> f.sent_any,
                                     raised |-> f.raised]>>]
    /\ UNCHANGED <<devices, maintenance_windows, alert_settings, streak, passed,
                   saves>>

\* one statement of one thread
ThreadStep(th) ==
    \/ ThreadShouldAlert(th)
    \/ ThreadMarkWrite(th)
    \/ ThreadPruneBegin(th)
    \/ ThreadPruneEnd(th)
    \/ ThreadMarkAssign(th)
    \/ ThreadEventEnabled(th)
    \/ ThreadSend(th, [c \in ChannelSet |-> "sent"])

\* a new Alerter shared by two threads
InitThreads ==
    /\ now = 0
    /\ devices = [d \in Devices |-> [status |-> "unknown", failure_count |-> 0]]
    /\ maintenance_windows = {}
    /\ alert_settings = NoSettings
    /\ settings_cache = NoSettings
    /\ cache_time = NoTime
    /\ recent_alerts = NoLocks
    /\ alert_history = <<>>
    /\ last = NoLast
    /\ streak = [d \in Devices |-> NoStreak]
    /\ passed = [k \in AlertKeys |-> NoTime]
    /\ saves = 0
    /\ call = [fn |-> "threads", t |-> [th \in Threads |-> IdleThread]]

\* two threads (the periodic job and a request, or two requests) calling
\* trigger_alert on the shared Alerter within one tick, and settings saves
NextThreads ==
    \/ (\E th \in Threads, d \in Devices, event_type \in {"down", "recovery"} :
           ThreadEnter(th, d, event_type))
    \/ (\E th \in Threads : ThreadStep(th)) /\ Within(MaxCheckTime, MaxHistory)
    \/ Save({TelegramOnly})

SpecThreads == InitThreads /\ [][NextThreads]_vars

TypeOK ==
    /\ now \in 0..MaxTime
    /\ \A d \in Devices : /\ devices[d].status \in Statuses
                          /\ devices[d].failure_count \in 0..MaxFailureCount
    /\ Len(alert_history) <= MaxHistory

(* ------------------------------- claims -------------------------------- *)
\* a run of raw-down checks of d that started from failure count 0 and a
\* stored status other than down
FreshRun(d) ==
    /\ streak[d].checks # <<>>
    /\ streak[d].failure_count = 0
    /\ streak[d].status # "down"

C2_ShortRunNeverDown ==
    [][\A d \in Devices :
          (/\ last'.op = "check"
           /\ last'.device = d
           /\ last'.raw \in {"up", "slow"}
           /\ FreshRun(d)
           /\ Len(streak[d].checks) < FAILURE_THRESHOLD)
          => /\ \A i \in 1..Len(streak[d].checks) : streak[d].checks[i].final # "down"
             /\ devices[d].status # "down"
             /\ devices'[d].status # "down"]_vars

C2_Witness ==
    /\ last.op = "check"
    /\ last.raw = "up"
    /\ last.previous_failure_count = FAILURE_THRESHOLD - 1
    /\ last.previous_status = "unknown"
    /\ devices[last.device].status = "up"

\* C3: after a check whose raw outcome is up or slow the stored failure
\* counter is 0 and the final and the stored status are that raw outcome,
\* whatever the state before.
C3_SuccessResetsCounter ==
    (last.op = "check" /\ last.raw \in {"up", "slow"}) =>
        /\ devices[last.device].failure_count = 0
        /\ devices[last.device].status = last.raw
        /\ last.final = last.raw

C3_Witness ==
    /\ last.op = "check"
    /\ last.raw = "slow"
    /\ last.previous_failure_count >= 2
    /\ devices[last.device].failure_count = 0
    /\ devices[last.device].status = "slow"

\* C4: a check of a device whose stored status is 'down' with raw outcome up
\* resolves to 'up', resets the failure counter to 0, and calls trigger_alert
\* exactly once for 'recovery' and not at all for 'down'.
C4_RecoveryOnce ==
    (last.op = "check" /\ last.previous_status = "down" /\ last.raw = "up") =>
        /\ last.final = "up"
        /\ devices[last.device].status = "up"
        /\ devices[last.device].failure_count = 0
        /\ Calls(last.logs, "recovery") = 1
        /\ Calls(last.logs, "down") = 0

C4_Witness ==
    /\ last.op = "check"
    /\ last.previous_status = "down"
    /\ last.previous_failure_count >= FAILURE_THRESHOLD
    /\ last.raw = "up"
    /\ Calls(last.logs, "recovery") = 1
    /\ Sends(last.logs, "recovery") = 1

\* the device is inside a device-specific or global window at the current time
InWindow(d) ==
    \E w \in maintenance_windows :
        /\ w.device_id \in {d, NoDevice}
        /\ w.start_time <= now
        /\ now <= w.end_time

\* the cooldown in seconds that the store holds
StoreCooldown == ParseInt(DictGet(alert_settings, "alert_cooldown", "300"))

\* a row of key k with status 'sent' was written less than secs seconds ago
SentWithin(k, secs) ==
    \E i \in 1..Len(alert_history) :
        /\ alert_history[i].device_id = k[1]
        /\ alert_history[i].event_type = k[2]
        /\ alert_history[i].status = "sent"
        /\ Elapsed(now, alert_history[i].created_at) < secs

HasSent(k) == SentWithin(k, (MaxTime + 2) * SecondsPerTick)

\* a call for key k passed should_alert less than the lock window ago
LockedOut(k) ==
    passed[k] # NoTime /\ Elapsed(now, passed[k]) < AlertLockSeconds

\* the channels the store enables, in the order trigger_alert visits them
StoreEnabled(c) ==
    Lower(DictGet(alert_settings,
                  CASE c = "email" -> "email_enabled"
                    [] c = "line" -> "line_enabled"
                    [] OTHER -> "telegram_enabled",
                  "false")) = "true"

EnabledChannels == SelectSeq(Channels, StoreEnabled)

\* the store enables the event kind
EventOn(e) ==
    Lower(DictGet(alert_settings,
                  CASE e = "down" -> "alert_on_down"
                    [] e = "recovery" -> "alert_on_recovery"
                    [] OTHER -> "alert_on_ssl_expiry",
                  "true")) = "true"

\* C5: when trigger_alert is called for a key for which an earlier call passed
\* should_alert, then less than the 30 s lock window after that earlier call
\* no channel is invoked and no row is written (the earlier call stays the
\* only send attempt); once the lock window has passed the call reaches the
\* channels again unless a 'sent' row within the cooldown suppresses it.
C5_LockWindowOneAttempt ==
    [][\A k \in AlertKeys :
          (/\ last'.op = "trigger"
           /\ last'.device = k[1]
           /\ last'.logs[1].event = k[2]
           /\ passed[k] # NoTime)
          => /\ Elapsed(now, passed[k]) < AlertLockSeconds
                => /\ last'.logs[1].invoked = <<>>
                   /\ alert_history' = alert_history
             /\ (/\ Elapsed(now, passed[k]) >= AlertLockSeconds
                 /\ ~SentWithin(k, StoreCooldown)
                 /\ ~InWindow(k[1])
                 /\ EventOn(k[2])
                 /\ EnabledChannels # <<>>)
                => /\ last'.logs[1].invoked # <<>>
                   /\ last'.logs[1].invoked[1] = EnabledChannels[1]]_vars

C5_Witness ==
    /\ last.op = "trigger"
    /\ last.logs[1].why = "lock"
    /\ EnabledChannels # <<>>
    /\ \E i \in 1..Len(alert_history) :
          /\ alert_history[i].device_id = last.device
          /\ alert_history[i].event_type = last.logs[1].event
          /\ alert_history[i].status = "failed"
          /\ alert_history[i].created_at = now

\* C6: a trigger_alert call for a key that has a 'sent' row less than
\* alert_cooldown seconds old invokes no channel and writes no row; when every
\* 'sent' row of the key is at least alert_cooldown seconds old the cooldown
\* no longer suppresses the call, and the call reaches the channels again when
\* neither the lock window nor a maintenance window applies and the event kind
\* and a channel are enabled; so a call only
\* writes a 'sent' row when no earlier 'sent' row of the key is within the
\* cooldown.
C6_CooldownSuppresses ==
    [][\A k \in AlertKeys :
          (/\ last'.op = "trigger"
           /\ last'.device = k[1]
           /\ last'.logs[1].event = k[2])
          => /\ SentWithin(k, StoreCooldown)
                => /\ last'.logs[1].invoked = <<>>
                   /\ alert_history' = alert_history
             /\ (HasSent(k) /\ ~SentWithin(k, StoreCooldown))
                => last'.logs[1].why # "cooldown"
             /\ (/\ HasSent(k)
                 /\ ~SentWithin(k, StoreCooldown)
                 /\ ~LockedOut(k)
                 /\ ~InWindow(k[1])
                 /\ EventOn(k[2])
                 /\ EnabledChannels # <<>>)
                => last'.logs[1].invoked # <<>>
             /\ \A i \in (Len(alert_history) + 1)..Len(alert_history') :
                   alert_history'[i].status = "sent" => ~SentWithin(k, StoreCooldown)]_vars

C6_Witness ==
    /\ last.op = "trigger"
    /\ last.logs[1].why = "cooldown"
    /\ ~LockedOut(<<last.device, last.logs[1].event>>)
    /\ SentWithin(<<last.device, last.logs[1].event>>, StoreCooldown)

\* C7: a check of a device that is inside an active maintenance window
\* invokes no channel and writes no alert-history row; when its raw outcome is
\* down it still adds 1 to the stored failure counter and stores the resolved
\* status, which is 'down' exactly from the FAILURE_THRESHOLD-th failure on.
C7_MaintenanceCountsButSilent ==
    [][\A d \in Devices :
          (/\ last'.op = "check"
           /\ last'.device = d
           /\ InWindow(d))
          => /\ \A i \in 1..Len(last'.logs) : last'.logs[i].invoked = <<>>
             /\ alert_history' = alert_history
             /\ last'.raw = "down"
                => /\ devices'[d].failure_count = devices[d].failure_count + 1
                   /\ devices'[d].status = "down"
                         <=> devices'[d].failure_count >= FAILURE_THRESHOLD]_vars

C7_Witness ==
    /\ last.op = "check"
    /\ last.raw = "down"
    /\ last.final = "down"
    /\ last.previous_status # "down"
    /\ devices[last.device].failure_count = FAILURE_THRESHOLD
    /\ InWindow(last.device)
    /\ EnabledChannels # <<>>
    /\ Calls(last.logs, "down") = 1
    /\ last.logs[1].why = "maintenance"

\* C8: a trigger_alert call made while the device is inside an active
\* maintenance window leaves the alert-lock map as it was (no entry added,
\* updated or pruned), invokes no channel and writes no alert-history row.
C8_MaintenanceLeavesLock ==
    [][\A d \in Devices :
          (/\ last'.op = "trigger"
           /\ last'.device = d
           /\ InWindow(d))
          => /\ recent_alerts' = recent_alerts
             /\ alert_history' = alert_history
             /\ last'.logs[1].invoked = <<>>
             /\ last'.logs[1].logged = <<>>]_vars

C8_Witness ==
    /\ last.op = "trigger"
    /\ last.logs[1].why = "maintenance"
    /\ InWindow(last.device)
    /\ EnabledChannels # <<>>
    /\ recent_alerts[<<last.device, last.logs[1].event>>] = NoTime
    /\ \E k \in AlertKeys :
          /\ recent_alerts[k] # NoTime
          /\ Elapsed(now, recent_alerts[k]) >= RetentionSeconds

\* C9: a dispatch that passes the suppression layers with its event kind
\* enabled invokes every enabled channel exactly once, writes one row per
\* enabled channel and never raises.
C9_EveryChannelInvoked ==
    (last.op = "trigger" /\ last.logs[1].why = "dispatched") =>
        /\ ~last.raised
        /\ last.logs[1].invoked = EnabledChannels
        /\ Len(last.logs[1].logged) = Len(EnabledChannels)

\* C10 as stated: a dispatch that passes the suppression layers with its event
\* kind enabled always writes an alert-history row, and sent_any holds iff a
\* channel succeeded.
C10_AlwaysRecorded ==
    (last.op = "trigger" /\ last.logs[1].why = "dispatched") =>
        /\ Len(last.logs[1].logged) >= 1
        /\ last.logs[1].sent_any <=>
              \E i \in 1..Len(last.logs[1].logged) : last.logs[1].logged[i] = "sent"

\* C10 amended: such a dispatch invokes the enabled channels in order and
\* writes one row for each invoked channel whose sender returned, 'failed'
\* when it failed, so a dispatch whose every channel fails is recorded; with
\* no channel enabled it writes no row. sent_any holds iff a channel
\* succeeded.
C10_RecordedPerInvokedChannel ==
    (last.op = "trigger" /\ last.logs[1].why = "dispatched") =>
        LET log == last.logs[1]
            n == Len(log.logged)
            h == Len(alert_history)
        IN /\ Len(log.invoked) <= Len(EnabledChannels)
           /\ \A i \in 1..Len(log.invoked) : log.invoked[i] = EnabledChannels[i]
           /\ n = Len(log.invoked) - (IF log.raised THEN 1 ELSE 0)
           /\ ~log.raised => log.invoked = EnabledChannels
           /\ EnabledChannels = <<>> => n = 0
           /\ n <= h
           /\ \A i \in 1..n :
                 /\ alert_history[h - n + i].channel = log.invoked[i]
                 /\ alert_history[h - n + i].status = log.logged[i]
                 /\ alert_history[h - n + i].device_id = last.device
                 /\ alert_history[h - n + i].event_type = log.event
                 /\ alert_history[h - n + i].created_at = now
           /\ log.sent_any <=> \E i \in 1..n : log.logged[i] = "sent"

C10_Witness ==
    /\ last.op = "trigger"
    /\ last.logs[1].why = "dispatched"
    /\ Len(EnabledChannels) >= 2
    /\ Len(last.logs[1].logged) = Len(EnabledChannels)
    /\ \A i \in 1..Len(last.logs[1].logged) : last.logs[1].logged[i] = "failed"
    /\ ~last.logs[1].sent_any

\* the last step was a check whose probe returned a result
ProbedCheck ==
    last.op = "check" /\ call.fn = "probe" /\ ~call.result.raised

\* C11: every probe that check_device selects (ping, http, tcp, dns, snmp)
\* returns a result for every failure of its network call, never raises into
\* check_device, and such a failure gives status down.
C11_ProbesNeverRaise ==
    call.fn = "probe" =>
        /\ ~call.result.raised
        /\ call.fault \notin {"none", "slow"} => call.result.status = "down"

WarningWindows == {SSL_EXPIRY_ALERT_DAYS, SSL_WARNING_DAYS}

DaysRange == (0 - 2)..(SSL_WARNING_DAYS + 10)

\* C13: the SSL classification of check_website: for every days_left and
\* every warning window W, days_left <= 0 is 'expired', 0 < days_left <= W is
\* 'warning' and days_left > W is 'ok'; an https check classifies against
\* W = SSL_WARNING_DAYS.
C13_SslClassification ==
    /\ \A W \in WarningWindows, days \in DaysRange :
          ssl_status(days, W) = CASE days <= 0 -> "expired"
                                  [] 0 < days /\ days <= W -> "warning"
                                  [] days > W -> "ok"
    /\ (ProbedCheck /\ call.result.ssl_days_left # NoDays) =>
          call.result.ssl_status =
              CASE call.days_left <= 0 -> "expired"
                [] 0 < call.days_left /\ call.days_left <= SSL_WARNING_DAYS -> "warning"
                [] call.days_left > SSL_WARNING_DAYS -> "ok"

C13_Witness ==
    /\ ProbedCheck
    /\ call.monitor_type = "http"
    /\ call.days_left = SSL_WARNING_DAYS
    /\ call.result.ssl_status = "warning"
    /\ ssl_status(5, 7) = "warning"
    /\ ssl_status(0 - 1, 7) = "expired"
    /\ ssl_status(40, 30) = "ok"

\* C14 as stated: a check triggers an 'ssl_expiry' dispatch exactly when the
\* probe's SSL classification is 'warning' or 'expired'.
C14_SslAlertCoincides ==
    ProbedCheck =>
        (Calls(last.logs, "ssl_expiry") = 1
            <=> call.result.ssl_status \in {"warning", "expired"})

\* an earlier trigger_alert call of the check raised, which ends the check
RaisedBeforeSsl ==
    \E i \in 1..Len(last.logs) :
        last.logs[i].raised /\ last.logs[i].event # "ssl_expiry"

\* C14 amended: a check calls trigger_alert for 'ssl_expiry' exactly when the
\* probe returned a days-left value that is at most SSL_EXPIRY_ALERT_DAYS (7)
\* and no earlier trigger_alert call of the check raised: 'expired' always
\* qualifies, 'warning' (window SSL_WARNING_DAYS = 30) only up to 7 days, and
\* 'ok', 'unknown' or no classification never.
C14_SslAlertByDays ==
    ProbedCheck =>
        /\ Calls(last.logs, "ssl_expiry") =
              IF /\ call.result.ssl_days_left # NoDays
                 /\ call.result.ssl_days_left <= SSL_EXPIRY_ALERT_DAYS
                 /\ ~RaisedBeforeSsl
              THEN 1 ELSE 0
        /\ (call.result.ssl_status = "expired" /\ ~RaisedBeforeSsl)
              => Calls(last.logs, "ssl_expiry") = 1
        /\ call.result.ssl_status \notin {"warning", "expired"}
              => Calls(last.logs, "ssl_expiry") = 0

C14_Witness ==
    /\ ProbedCheck
    /\ call.result.ssl_status = "warning"
    /\ call.result.ssl_days_left = SSL_EXPIRY_ALERT_DAYS
    /\ Calls(last.logs, "ssl_expiry") = 1
    /\ \E i \in 1..Len(last.logs) :
          /\ last.logs[i].event = "ssl_expiry"
          /\ last.logs[i].why = "dispatched"
          /\ last.logs[i].invoked # <<>>

\* the recipients of a send_telegram call and those whose POST did not succeed
Recipients == chat_ids_of(call.tokens)

FailedRecipients ==
    {Recipients[i] : i \in {j \in 1..Len(Recipients) :
                               call.replies[Recipients[j]] # "ok"}}

Resolve(raw, count_before, previous, T) ==
    LET count_after == IF raw = "down" THEN count_before + 1 ELSE 0
        final == CASE raw # "down" -> raw
                   [] raw = "down" /\ count_after >= T -> "down"
                   [] raw = "down" /\ count_after < T /\ previous \in {"up", "slow"}
                        -> previous
                   [] OTHER -> "unknown"
    IN [final |-> final,
        count_after |-> count_after,
        down_edge |-> previous # "down" /\ final = "down",
        up_edge |-> (previous = "down" \/ count_before >= T)
                       /\ final \in {"up", "slow"}]

\* the last step was a check of a device that got past its probe
ResolvedCheck == last.op = "check" /\ last.raw # "none"

\* C15: the final status, the failure count after and the down and recovery
\* trigger decisions of a check are the values of one function of (raw status,
\* failure count before, previous status of the record, T), whatever the
\* rest of the state is (settings, lock map, alert history, stored status,
\* a periodic job in progress); so two checks with the same four inputs give
\* the same four outputs.
C15_ResolverDeterministic ==
    ResolvedCheck =>
        LET r == Resolve(last.raw, last.previous_failure_count,
                         last.previous_status, FAILURE_THRESHOLD)
        IN /\ last.final = r.final
           /\ devices[last.device].failure_count = r.count_after
           /\ (Calls(last.logs, "down") = 1) = r.down_edge
           /\ (Calls(last.logs, "recovery") = 1) = r.up_edge
           /\ Calls(last.logs, "down") + Calls(last.logs, "recovery") <= 1

C15_Witness ==
    /\ ResolvedCheck
    /\ last.previous_status # devices[last.device].status
    /\ last.raw = "down"
    /\ last.final = "unknown"
    /\ last.previous_status = "down"
    /\ alert_history # <<>>
    /\ alert_settings # NoSettings

\* C16: when the raw outcome is down the failure count after is the count
\* before plus 1; with that count >= T the final status is down; otherwise it
\* is the previous status when that is up or slow and 'unknown' for every
\* other previous status, down included.
C16_DownResolution ==
    (ResolvedCheck /\ last.raw = "down") =>
        /\ devices[last.device].failure_count = last.previous_failure_count + 1
        /\ devices[last.device].failure_count >= FAILURE_THRESHOLD
              => last.final = "down"
        /\ (/\ devices[last.device].failure_count < FAILURE_THRESHOLD
            /\ last.previous_status \in {"up", "slow"})
              => last.final = last.previous_status
        /\ (/\ devices[last.device].failure_count < FAILURE_THRESHOLD
            /\ last.previous_status \notin {"up", "slow"})
              => last.final = "unknown"

C16_Witness ==
    /\ ResolvedCheck
    /\ last.raw = "down"
    /\ last.previous_status = "down"
    /\ devices[last.device].failure_count < FAILURE_THRESHOLD
    /\ last.final = "unknown"
    /\ devices[last.device].status = "unknown"

C18_RecoveryEdge ==
    ResolvedCheck =>
        /\ Calls(last.logs, "recovery") = 1
              <=> /\ last.final \in {"up", "slow"}
                  /\ \/ last.previous_status = "down"
                     \/ last.previous_failure_count >= FAILURE_THRESHOLD
        /\ Calls(last.logs, "recovery") <= 1

C18_Witness ==
    /\ ResolvedCheck
    /\ last.previous_status = "unknown"
    /\ last.previous_failure_count >= FAILURE_THRESHOLD
    /\ last.final \in {"up", "slow"}
    /\ Calls(last.logs, "recovery") = 1

\* the place of a statement in the order of the claim: counter read, counter
\* update, decision, persisting, then alert evaluation and sends
Rank(pc) ==
    CASE pc = "get_failure_count" -> 1
      [] pc = "update_failure_count" -> 2
      [] pc = "final_status" -> 3
      [] pc = "update_device_status" -> 4
      [] pc = "should_alert" -> 5
      [] pc = "_mark_alert_sent" -> 6
      [] pc = "event_enabled" -> 7
      [] OTHER -> 8

\* the step is a statement of the check in progress
CheckStep == Running /\ call' # call

\* C19: within one check the failure counter is read, then updated, then the
\* final status is decided, then stored, and only then alerts are evaluated
\* and channels invoked: the statements up to the store run once each in
\* this order, later statements never go back before it, the store is
\* written by the counter update and the status update only, and should_alert,
\* a channel send or an alert-history write of the check happen only after
\* the status was stored.
C19_StepOrder ==
    [][CheckStep =>
          /\ (Rank(call.pc) < 4 /\ call'.fn = "check_device")
                => Rank(call'.pc) = Rank(call.pc) + 1
          /\ (Rank(call.pc) >= 4 /\ call'.fn = "check_device")
                => Rank(call'.pc) >= 5
          /\ devices' # devices
                => call.pc \in {"update_failure_count", "update_device_status"}
          /\ devices'[call.device].status # devices[call.device].status
                => (call.pc = "update_device_status"
                       /\ devices'[call.device].status = call.final)
          /\ (\/ Rank(call.pc) >= 5
              \/ alert_history' # alert_history
              \/ recent_alerts' # recent_alerts
              \/ last'.logs # <<>>)
                => /\ call.persisted
                   /\ devices[call.device].status = call.final
                   /\ devices[call.device].failure_count = call.failure_count]_vars

C19_Witness ==
    /\ At("send")
    /\ call.ci > 1
    /\ last.op = "send"
    /\ last.logs # <<>>
    /\ alert_history # <<>>
    /\ call.persisted
    /\ call.final = "down"
    /\ devices[call.device].status = "down"

ReadAfterWrite ==
    /\ InSettings
    /\ call.reader.pc = "returned"
    /\ call.reader.entry_quiet
    /\ call.reader.entry_saves > 0
    /\ call.reader.entry_saves = saves
    /\ call.writer.pc = "idle"

\* a _get_settings call returns the values the store holds when it began
\* after a completed save
CompletedWriteSeen == ReadAfterWrite => call.reader.returned = alert_settings

\* a _get_settings call that finds a snapshot younger than the TTL returns
\* that snapshot without reading the store
TtlServesCache ==
    [][(/\ InSettings
        /\ last'.op = "_get_settings"
        /\ cache_time # NoTime
        /\ Elapsed(now, cache_time) < CacheSeconds)
       => /\ call'.reader.pc = "returned"
          /\ call'.reader.returned = settings_cache
          /\ ~call'.reader.read_store
          /\ settings_cache' = settings_cache
          /\ cache_time' = cache_time]_vars

\* C21: every _get_settings call that begins after a save request has
\* written the store and invalidated the cache returns the values the store
\* then holds, under any interleaving with a _get_settings call that was
\* refreshing the snapshot meanwhile; and a call within the TTL of a snapshot
\* that no save has invalidated returns the snapshot without reading the
\* store.
C21_SettingsCache == []CompletedWriteSeen /\ TtlServesCache

\* the step is a trigger_alert call for key k that no suppression layer ended
Unsuppressed(k) ==
    /\ last'.op = "trigger"
    /\ last'.device = k[1]
    /\ last'.logs[1].event = k[2]
    /\ last'.logs[1].why \notin {"maintenance", "lock", "cooldown"}

\* an unsuppressed call whose event kind is switched off invokes no channel
\* and writes no row
EventFlagOffSilent ==
    [][\A k \in AlertKeys :
          (Unsuppressed(k) /\ ~EventOn(k[2]))
          => /\ last'.logs[1].why = "disabled"
             /\ last'.logs[1].invoked = <<>>
             /\ last'.logs[1].logged = <<>>
             /\ alert_history' = alert_history]_vars

\* an unsuppressed call whose event kind is on (or unset) invokes every
\* enabled channel
EventFlagOnAllChannels ==
    [][\A k \in AlertKeys :
          (Unsuppressed(k) /\ EventOn(k[2]))
          => /\ last'.logs[1].why = "dispatched"
             /\ last'.logs[1].invoked = EnabledChannels]_vars

\* C22: a trigger_alert call that is not suppressed invokes no channel and
\* writes no alert-history row when the enable flag of its event kind is
\* false, and invokes every enabled channel when the flag is true or unset.
C22_EventFlagGates == EventFlagOffSilent /\ EventFlagOnAllChannels

\* both threads are in, or have just ended, overlapping trigger_alert calls
\* for the same key
RivalCalls ==
    /\ InThreads
    /\ call.t[1].rival
    /\ call.t[2].rival
    /\ call.t[1].device = call.t[2].device
    /\ call.t[1].event = call.t[2].event

\* C23: of two overlapping trigger_alert calls for the same (device_id,
\* event_type), under any interleaving of their statements, at most one gets
\* past should_alert and the event flag to the channel blocks.
C23_OneOfTwoSends ==
    RivalCalls => ~(call.t[1].reached /\ call.t[2].reached)

\* the entry of key k is still inside the lock window after the step
FreshEntry(k) ==
    /\ recent_alerts[k] # NoTime
    /\ Elapsed(now', recent_alerts[k]) < AlertLockSeconds

\* C29: an entry that _mark_alert_sent wrote for key k stays in the
\* alert-lock map for the 30 s lock window whatever statements of a
\* concurrent _mark_alert_sent call for another key interleave, and
\* should_alert answers 'lock' for a key only when the map holds a fresh
\* entry of that same key.
C29_LockEntriesIndependent ==
    [][InThreads =>
          /\ \A k \in AlertKeys : FreshEntry(k) => recent_alerts'[k] # NoTime
          /\ \A th \in Threads :
                (call.t[th].pc = "should_alert" /\ call'.t[th].why = "lock")
                   => /\ recent_alerts[ThreadKey(th)] # NoTime
                      /\ Elapsed(now, recent_alerts[ThreadKey(th)])
                            < AlertLockSeconds]_vars

\* C24: while a check_device pipeline of a device is in progress, no other
\* check_device runs for the same device, whichever entry points (the
\* periodic job, the on-demand routes) the two come from.
C24_NoOverlappingChecks ==
    [][(Running /\ last'.op = "check") => last'.device # call.device]_vars

\* C25: only rows with status 'sent' start a cooldown: a trigger_alert call
\* in which no channel succeeded leaves the time of the last sent alert of
\* its key as it was, and a later call for a key with no 'sent' row is never
\* answered 'cooldown': inside the 30 s lock window of the earlier call it is
\* suppressed by the lock, and once that window has passed it is attempted
\* again (it reaches the flag check, and the channels when the event kind and
\* a channel are enabled).
C25_CooldownCountsSent ==
    [][\A k \in AlertKeys :
          (/\ last'.op = "trigger"
           /\ last'.device = k[1]
           /\ last'.logs[1].event = k[2])
          => /\ ~last'.logs[1].sent_any
                => get_last_alert_time(alert_history', k[1], k[2])
                      = get_last_alert_time(alert_history, k[1], k[2])
             /\ ~HasSent(k) => last'.logs[1].why # "cooldown"
             /\ (~HasSent(k) /\ LockedOut(k) /\ ~InWindow(k[1]))
                => last'.logs[1].why = "lock"
             /\ (/\ ~HasSent(k)
                 /\ passed[k] # NoTime
                 /\ ~LockedOut(k)
                 /\ ~InWindow(k[1]))
                => /\ last'.logs[1].why \in {"dispatched", "disabled"}
                   /\ (EventOn(k[2]) /\ EnabledChannels # <<>>)
                         => last'.logs[1].invoked # <<>>]_vars

C25_Witness ==
    /\ last.op = "trigger"
    /\ last.logs[1].why = "dispatched"
    /\ last.logs[1].invoked # <<>>
    /\ \E i \in 1..Len(alert_history) :
          /\ alert_history[i].device_id = last.device
          /\ alert_history[i].event_type = last.logs[1].event
          /\ alert_history[i].status = "failed"
          /\ Elapsed(now, alert_history[i].created_at) >= AlertLockSeconds
          /\ Elapsed(now, alert_history[i].created_at) < StoreCooldown
    /\ \A i \in 1..Len(alert_history) :
          (/\ alert_history[i].device_id = last.device
           /\ alert_history[i].event_type = last.logs[1].event
           /\ alert_history[i].status = "sent")
          => alert_history[i].created_at = now

\* the stored status of d is 'down' exactly when its stored failure counter
\* has reached the threshold
DownIffCounted(devs, d) ==
    devs[d].status = "down" <=> devs[d].failure_count >= FAILURE_THRESHOLD

\* C26: with the checks of a device run one after the other, a check_device
\* that starts with the stored status 'down' exactly when the stored failure
\* counter is >= T ends the same way: after it the stored status is 'down'
\* if and only if the stored counter is >= T.
C26_DownIffCounterAtThreshold ==
    [][\A d \in Devices :
          (/\ last'.op = "check"
           /\ last'.device = d
           /\ DownIffCounted(devices, d))
          => DownIffCounted(devices', d)]_vars

C26_Witness ==
    /\ last.op = "check"
    /\ last.raw = "down"
    /\ last.previous_status # "down"
    /\ last.previous_failure_count = FAILURE_THRESHOLD - 1
    /\ devices[last.device].status = "down"
    /\ devices[last.device].failure_count = FAILURE_THRESHOLD

\* the step is a check of d that finds the stored status 'down' and resolves
\* to 'down' again: the device stays down
StaysDown(d) ==
    /\ last'.op = "check"
    /\ last'.device = d
    /\ devices[d].status = "down"
    /\ last'.final = "down"

SentRows(d, e) ==
    {i \in 1..Len(alert_history) :
        /\ alert_history[i].device_id = d
        /\ alert_history[i].event_type = e
        /\ alert_history[i].status = "sent"}

\* C28 as stated: every sent 'recovery' alert of a device comes after a sent
\* 'down' alert of the same device that is later than the device's previous
\* sent recovery.
C28_RecoveryAfterSentDown ==
    \A d \in Devices :
        \A i \in SentRows(d, "recovery") :
            \E j \in SentRows(d, "down") :
                /\ j < i
                /\ \A r \in SentRows(d, "recovery") :
                      (r < i /\ alert_history[r].created_at
                                   < alert_history[i].created_at) => r < j

\* C28 amended: a check triggers and sends a 'recovery' alert on the up-edge
\* alone (final status up or slow after a previous status 'down' or a failure
\* counter >= T), provided no window, lock or cooldown of the recovery key
\* applies and the event kind and a channel are enabled; whether a 'down'
\* alert of the outage was sent, suppressed, switched off or failed plays no
\* part, and without the up-edge no recovery is sent.
C28_RecoveryOnUpEdgeAlone ==
    [][\A d \in Devices :
          (last'.op = "check" /\ last'.device = d)
          => /\ (/\ last'.final \in {"up", "slow"}
                 /\ \/ last'.previous_status = "down"
                    \/ last'.previous_failure_count >= FAILURE_THRESHOLD
                 /\ ~InWindow(d)
                 /\ ~LockedOut(<<d, "recovery">>)
                 /\ ~SentWithin(<<d, "recovery">>, StoreCooldown)
                 /\ EventOn("recovery")
                 /\ EnabledChannels # <<>>)
                => Sends(last'.logs, "recovery") >= 1
             /\ Sends(last'.logs, "recovery") >= 1
                => /\ last'.final \in {"up", "slow"}
                   /\ \/ last'.previous_status = "down"
                      \/ last'.previous_failure_count >= FAILURE_THRESHOLD]_vars

C28_Witness ==
    /\ last.op = "check"
    /\ last.previous_status = "down"
    /\ last.previous_failure_count >= FAILURE_THRESHOLD
    /\ Sends(last.logs, "recovery") = 1
    /\ \E i \in SentRows(last.device, "recovery") :
          alert_history[i].created_at = now
    /\ SentRows(last.device, "down") = {}
    /\ ~EventOn("down")

\* C30: a trigger_alert call that passes should_alert writes the lock entry
\* of its key with the current time, also when the event kind is switched
\* off, no channel is enabled or a sender raises; a call that the lock or
\* the cooldown suppresses leaves the whole lock map as it was; and a call
\* for a key whose entry is less than 30 s old is suppressed
\* by the lock, invoking no channel and writing no row, although the call
\* that wrote the entry may have sent nothing.
C30_LockWrittenOnPass ==
    [][\A k \in AlertKeys :
          (/\ last'.op = "trigger"
           /\ last'.device = k[1]
           /\ last'.logs[1].event = k[2])
          => /\ last'.logs[1].why \in {"dispatched", "disabled"}
                => /\ recent_alerts'[k] = now'
                   /\ passed'[k] = now'
             /\ last'.logs[1].why \in {"lock", "cooldown"}
                => recent_alerts' = recent_alerts
             /\ (/\ recent_alerts[k] # NoTime
                 /\ Elapsed(now, recent_alerts[k]) < AlertLockSeconds)
                => /\ last'.logs[1].why = "lock"
                   /\ last'.logs[1].invoked = <<>>
                   /\ alert_history' = alert_history]_vars

C30_Witness ==
    /\ last.op = "trigger"
    /\ last.logs[1].why = "lock"
    /\ ~EventOn(last.logs[1].event)
    /\ EnabledChannels # <<>>
    /\ recent_alerts[<<last.device, last.logs[1].event>>] = now
    /\ \A i \in 1..Len(alert_history) :
          alert_history[i].event_type # last.logs[1].event

====
